---- MODULE Spec2Model ----
(***************************************************************************)
(* Verification model of the synchronization engine of                     *)
(* demind-agent-service:                                                   *)
(*   - the rate-limited upstream client (CoingeckoClient): request queue,  *)
(*     minimum spacing, server-instructed backoff, bounded retries;        *)
(*   - the bulk upstream client (DeFiLlamaClient): withRetry;              *)
(*   - the reconciliation passes of DeFiLlamaSyncService.                  *)
(* Times are milliseconds, as in the source (Date.now()).                  *)
(***************************************************************************)
EXTENDS Integers, Sequences, FiniteSets, TLC

(***************************************************************************)
(* Bounds of the model.                                                    *)
(***************************************************************************)
\* single calls issued by the callers of the rate-limited clients
MaxCalls == 2
\* upstream requests sent by a rate-limited client
MaxRequests == 6
\* bursts of getCoinDetails calls issued by the callers, under overload
MaxBursts == 1
\* upstream requests sent under overload
MaxOverloadRequests == 2
\* upstream requests sent by all the rate-limited clients of the process
MaxProcessRequests == 3
\* calls issued where every call is followed to its end
MaxLiveCalls == 2
\* fetches made on the bulk client
MaxFetches == 2
\* runs of syncProtocols
MaxPasses == 2
\* records in one payload of the bulk provider
MaxPayload == 3
\* pool records in one payload of the bulk provider
MaxPoolPayload == 2
MaxChains == 2
MaxSeries == 2
MaxResyncPayload == 2
MaxAllPayload == 1
MaxOverlapPayload == 2
MaxMalformedPayload == 2
MaxCoinList == 2
MaxStablePayload == 2
MaxDays == 9
\* calls of getCoinDetailsAndStore, and hours they are spread over
MaxDetailsCalls == 3
MaxDetailsHours == 18
\* value of Date.now() when the process starts handling work
Epoch == 10000

(***************************************************************************)
(* Program constants of CoingeckoClient.                                   *)
(***************************************************************************)
MAX_RETRIES == 5
RETRY_DELAY_MS == 2100
MIN_REQUEST_INTERVAL_MS == 1500
MAX_QUEUE_SIZE == 50
\* handleApiError: let retryAfterSeconds = 60
DEFAULT_RETRY_AFTER == 60
\* handleApiError: (retryAfterSeconds + 3) * 1000
SAFETY_MARGIN_S == 3

(***************************************************************************)
(* Inputs.                                                                 *)
(***************************************************************************)
\* holders of a CoingeckoClient: the CoinGeckoService of index.ts (scheduled
\* sync, routes) and the CoinGeckoService of the tool layer
Clients == {"sync", "tool"}
Kinds == {"getCoinsList", "getCoinDetails", "getTrendingCoins"}
\* retry-after header of a 429 response: NoHeader when absent, else seconds
NoHeader == -1
RetryAfterHeaders == {NoHeader, 0, 5}
\* size of a burst of getCoinDetails calls
BurstSize == MAX_QUEUE_SIZE
\* time the caller lets pass before it issues a call
Gaps == {0, 2000}
\* latency of an upstream response
Latencies == {250}

\* an upstream response as the retry loop sees it
Responses ==
  {[status |-> 200, code |-> "", retryAfter |-> NoHeader, valid |-> v] : v \in BOOLEAN}
  \cup {[status |-> 429, code |-> "", retryAfter |-> h, valid |-> FALSE] : h \in RetryAfterHeaders}
  \cup {[status |-> 0, code |-> "ECONNRESET", retryAfter |-> NoHeader, valid |-> FALSE],
        [status |-> 500, code |-> "", retryAfter |-> NoHeader, valid |-> FALSE]}

VARIABLES
  now,      \* Date.now()
  client,   \* client[c]: the fields of the CoingeckoClient held by c
  call,     \* call[i]: the i-th call made on a client method
  env,      \* the run: the clients in use and the bounds on calls, bursts, requests
  issued,   \* <<single calls issued, bursts issued>> by the callers
  returned, \* what the latest call to return gave its caller
  sent,     \* upstream requests sent so far
  starts,   \* starts[c]: the last two times at which the worker of c started a call
  owed,     \* owed[c]: latest "t + R + margin" of the 429 responses seen by c
  bulk,     \* the fetch of the bulk client that is under way
  db,       \* the tables of the store
  cache,    \* the entries of the key-value cache
  pp,       \* the run of syncProtocols that is under way
  poolPass,   \* the run of syncPools that is under way
  stablePass, \* the run of syncStablecoins that is under way
  chartPass,  \* the run of syncPoolChart that is under way
  coinPass,   \* the run of syncCoinsListAndPlatforms that is under way
  probe,      \* a record put to the chain filter, and the answer
  details,    \* the call of getCoinDetailsAndStore that is under way
  all         \* the run of syncAll that is under way

cgVars == <<client, call, env, issued, returned, sent, starts, owed>>
syncVars == <<db, cache, pp, poolPass, stablePass, chartPass, coinPass, all>>
\* the state outside the scheduled passes
apart == <<now, cgVars, bulk, probe, details>>
vars ==
  <<now, client, call, env, issued, returned, sent, starts, owed, bulk,
    db, cache, pp, poolPass, stablePass, chartPass, coinPass, probe, details,
    all>>

Max(a, b) == IF a >= b THEN a ELSE b
SetMin(S) == CHOOSE x \in S : \A y \in S : x <= y

(***************************************************************************)
(* CoingeckoClient                                                         *)
(***************************************************************************)
\* the client right after its constructor
NewClient ==
  [requestQueue |-> <<>>, isProcessingQueue |-> FALSE,
   lastRequestTime |-> 0, backoffTime |-> 0,
   sleeping |-> {}]     \* processQueue runs inside "await this.delay(waitTime)"

NewCall(c, k) ==
  [client |-> c, kind |-> k, pc |-> "queued", attempt |-> 0, wake |-> 0,
   otherAt |-> 0]    \* attempt of the first error that is no 429 and no reset

\* the call i returned res to its caller after the response resp
Returned(i, res, resp) ==
  [id |-> i, kind |-> call[i].kind, attempts |-> call[i].attempt,
   otherAt |-> IF call[i].otherAt = 0 /\ resp.status = 500
                 THEN call[i].attempt ELSE call[i].otherAt,
   last |-> IF resp.code = "ECONNRESET" THEN 1 ELSE resp.status,
   result |-> res]

\* no call has returned yet
NoReturn ==
  [id |-> 0, kind |-> "", attempts |-> 0, otherAt |-> 0, last |-> 0, result |-> ""]

\* the record of a call whose requestFn has returned
Over(c) ==
  [client |-> c, kind |-> "", pc |-> "settled", attempt |-> 0, wake |-> 0, otherAt |-> 0]

\* the calls of c that were shifted from the queue and have not returned
Executing(c) ==
  {i \in DOMAIN call : call[i].client = c /\ call[i].pc \in {"request", "retryDelay"}}

\* processQueue without the test of isProcessingQueue
BusyNever(s) == FALSE

\* processQueue, first statement: the early return
Busy(s) == s.isProcessingQueue

\* processQueue waiting for the backoff alone
WaitTimeBackoffOnly(s, t) ==
  IF s.backoffTime > t THEN s.backoffTime - t ELSE 0

\* processQueue: the wait before the next call
WaitTime(s, t) ==
  IF s.backoffTime > t
    THEN s.backoffTime - t
    ELSE IF t - s.lastRequestTime < MIN_REQUEST_INTERVAL_MS
           THEN MIN_REQUEST_INTERVAL_MS - (t - s.lastRequestTime)
           ELSE 0

\* processQueue after the wait: requestQueue.shift() and the start of requestFn
Shift(s) ==
  IF s.requestQueue = <<>>
    THEN [s |-> [s EXCEPT !.isProcessingQueue = FALSE], started |-> {}]
    ELSE [s |-> [s EXCEPT !.requestQueue = Tail(@)],
          started |-> {Head(s.requestQueue)}]

\* processQueue up to its first suspension point, entered at time t
ProcessQueue(s, t) ==
  IF Busy(s) \/ s.requestQueue = <<>>
    THEN [s |-> s, started |-> {}]
    ELSE LET s1 == [s EXCEPT !.isProcessingQueue = TRUE]
             w == WaitTime(s, t)
         IN IF w > 0
              THEN [s |-> [s1 EXCEPT !.sleeping = @ \cup {t + w}], started |-> {}]
              ELSE Shift(s1)

\* addToQueue rejecting one call too late
QueueFullOffByOne(s) == Len(s.requestQueue) > MAX_QUEUE_SIZE

\* addToQueue: the queue-full test
QueueFull(s) == Len(s.requestQueue) >= MAX_QUEUE_SIZE

\* handleApiError asking for a retry after every 429
ShouldRetryAlways429(resp, attempt, maxRetries) ==
  IF resp.status = 429
    THEN TRUE
    ELSE resp.code = "ECONNRESET" /\ attempt < maxRetries

\* handleApiError: the retry decision
ShouldRetry(resp, attempt, maxRetries) ==
  IF resp.status = 429
    THEN attempt < maxRetries
    ELSE IF resp.code = "ECONNRESET" /\ attempt < maxRetries
           THEN TRUE
           ELSE FALSE

\* handleApiError: the backoff a 429 response sets at time t
BackoffAfter(s, resp, t) ==
  IF resp.status = 429
    THEN LET retryAfterSeconds ==
               IF resp.retryAfter # NoHeader THEN resp.retryAfter ELSE DEFAULT_RETRY_AFTER
         IN t + (retryAfterSeconds + SAFETY_MARGIN_S) * 1000
    ELSE s.backoffTime

\* the value the retry loops return when they give up
Neutral(k) == IF k = "getCoinDetails" THEN "null" ELSE "empty"

\* the value returned for a 200 response
Parsed(k, resp) ==
  IF resp.valid THEN "data"
  ELSE IF k = "getCoinDetails" THEN "raw" ELSE "empty"

\* the times of all pending timers (setTimeout)
Timers ==
  UNION {client[c].sleeping : c \in Clients}
  \cup {call[i].wake : i \in {j \in DOMAIN call : call[j].pc = "retryDelay"}}

\* the clock may advance by d without passing a pending timer
MayPass(d) == \A w \in Timers : now + d <= w

\* effect of the calls in "started" beginning their first attempt at time t
Begin(cs, started) ==
  [i \in DOMAIN cs |->
     IF i \in started THEN [cs[i] EXCEPT !.pc = "request", !.attempt = 1] ELSE cs[i]]

\* the finally block of processQueue without the update of lastRequestTime
FinallyKeepsTime(s, t) ==
  ProcessQueue([s EXCEPT !.isProcessingQueue = FALSE], t)

\* requestFn returned at time t: the finally block of processQueue
Finally(s, t) ==
  ProcessQueue([s EXCEPT !.lastRequestTime = t, !.isProcessingQueue = FALSE], t)

\* the state after the worker of c moved to s and started the calls in "started"
\* at time t, the calls being cs and n further requests having been sent
Commit(c, s, cs, started, n, t) ==
  /\ client' = [client EXCEPT ![c] = s]
  /\ call' = Begin(cs, started)
  /\ sent' = sent + Cardinality(started) + n
  /\ sent' <= env.requests
  /\ UNCHANGED <<env, bulk, syncVars, probe, details>>
  /\ starts' = [starts EXCEPT ![c] = IF started = {} THEN @ ELSE <<@[2], t>>]

\* addToQueue(apiCall) on client c at time t: cs are the calls so far, the new
\* call is number Len(cs) + 1; the result is the client and the calls after it
AddToQueue(s, cs, c, k, t) ==
  IF QueueFull(s)
    THEN [s |-> s, started |-> {},
          cs |-> Append(cs, [NewCall(c, k) EXCEPT !.pc = "rejected"])]
    ELSE LET r == ProcessQueue([s EXCEPT !.requestQueue = Append(@, Len(cs) + 1)], t)
         IN [s |-> r.s, started |-> r.started, cs |-> Append(cs, NewCall(c, k))]

\* what the caller of the latest of the calls cs got at once: the queue-full
\* error when addToQueue threw, else nothing yet
Thrown(cs, k) ==
  IF cs[Len(cs)].pc = "rejected"
    THEN [NoReturn EXCEPT !.id = Len(cs), !.kind = k, !.result = "QueueFullError"]
    ELSE returned

\* a caller calls the client method k of c, "gap" after the worker of c went idle
Issue(c, k, gap) ==
  /\ issued[1] < env.calls
  /\ gap > 0 => ~client[c].isProcessingQueue
  /\ MayPass(gap)
  /\ now' = now + gap
  /\ LET r == AddToQueue(client[c], call, c, k, now')
     IN /\ Commit(c, r.s, r.cs, r.started, 0, now')
        /\ returned' = Thrown(r.cs, k)
  /\ issued' = <<issued[1] + 1, issued[2]>>
  /\ UNCHANGED owed

getCoinsList(c) == \E gap \in Gaps : Issue(c, "getCoinsList", gap)
getCoinDetails(c) == \E gap \in Gaps : Issue(c, "getCoinDetails", gap)
getTrendingCoins(c) == \E gap \in Gaps : Issue(c, "getTrendingCoins", gap)

\* n calls of the method k of c made back-to-back at time t, in one synchronous
\* stretch: the first half of them, and then the rest
RECURSIVE AddMany(_, _, _, _, _)
AddMany(r, c, k, t, n) ==
  IF n = 0 THEN r
  ELSE IF n = 1
    THEN LET r1 == AddToQueue(r.s, r.cs, c, k, t)
         IN [s |-> r1.s, cs |-> r1.cs, started |-> r.started \cup r1.started]
  ELSE LET half == AddMany(r, c, k, t, n \div 2)
       IN IF Len(half.cs) = Len(r.cs) + (n \div 2)   \* one record per call
            THEN AddMany(half, c, k, t, n - (n \div 2))
            ELSE half

\* sustained overload: the callers of c ask for the details of BurstSize coins at once
DetailsBurst(c) ==
  /\ issued[2] < env.bursts
  /\ LET r == AddMany([s |-> client[c], cs |-> call, started |-> {}],
                      c, "getCoinDetails", now, BurstSize)
     IN /\ Commit(c, r.s, r.cs, r.started, 0, now)
        /\ returned' = Thrown(r.cs, "getCoinDetails")
  /\ issued' = <<issued[1], issued[2] + 1>>
  /\ UNCHANGED <<now, owed>>

\* the same with a finally block that does not call processQueue
SettleAndStop(i, res, resp, s, t) ==
  /\ Commit(call[i].client,
            [s EXCEPT !.lastRequestTime = t, !.isProcessingQueue = FALSE],
            [call EXCEPT ![i] = Over(call[i].client)], {}, 0, t)
  /\ returned' = Returned(i, res, resp)

\* requestFn of call i returns res at time t after the response resp, the
\* client being s: resolve(result), then the finally block of processQueue
Settle(i, res, resp, s, t) ==
  LET r == Finally(s, t)
  IN /\ Commit(call[i].client, r.s, [call EXCEPT ![i] = Over(call[i].client)],
               r.started, 0, t)
     /\ returned' = Returned(i, res, resp)

\* the upstream answers the request of call i with resp after d ms: one pass
\* through the body of the retry loop of getCoinsList / getCoinDetails /
\* getTrendingCoins
Respond(i, resp, d) ==
  /\ call[i].pc = "request"
  /\ MayPass(d)
  /\ now' = now + d
  /\ LET c == call[i].client
         a == call[i].attempt
         s == [client[c] EXCEPT !.backoffTime = BackoffAfter(client[c], resp, now')]
         seen == [call EXCEPT ![i].otherAt =
                                 IF @ = 0 /\ resp.status = 500 THEN a ELSE @]
     IN /\ IF resp.status = 200
             THEN Settle(i, Parsed(call[i].kind, resp), resp, s, now')
           ELSE IF ShouldRetry(resp, a, MAX_RETRIES)
             THEN /\ Commit(c, s, [seen EXCEPT ![i].pc = "retryDelay",
                                               ![i].wake = now' + RETRY_DELAY_MS],
                            {}, 0, now')
                  /\ UNCHANGED returned
           ELSE IF a = MAX_RETRIES
             THEN Settle(i, Neutral(call[i].kind), resp, s, now')
           ELSE /\ Commit(c, s, [seen EXCEPT ![i].attempt = a + 1], {}, 1, now')
                /\ UNCHANGED returned
        /\ owed' = [owed EXCEPT ![c] =
                     IF resp.status = 429 /\ resp.retryAfter # NoHeader
                       THEN Max(@, now' + resp.retryAfter * 1000 + 3000)
                       ELSE @]
  /\ UNCHANGED issued

\* "await this.delay(this.RETRY_DELAY_MS)" of call i is over: the next round
\* of the retry loop, or its end
RetryWake(i) ==
  /\ call[i].pc = "retryDelay"
  /\ call[i].wake = SetMin(Timers)
  /\ now' = Max(now, call[i].wake)
  /\ LET c == call[i].client
     IN IF call[i].attempt < MAX_RETRIES
          THEN /\ Commit(c, client[c],
                         [call EXCEPT ![i].pc = "request", ![i].attempt = @ + 1,
                                      ![i].wake = 0],
                         {}, 1, now')
               /\ UNCHANGED returned
          ELSE Settle(i, Neutral(call[i].kind),
                      [status |-> 0, code |-> ""], client[c], now')
  /\ UNCHANGED <<issued, owed>>

\* "await this.delay(waitTime)" of a processQueue run of c is over
QueueWake(c) ==
  \E w \in client[c].sleeping :
    /\ w = SetMin(Timers)
    /\ now' = Max(now, w)
    /\ LET r == Shift([client[c] EXCEPT !.sleeping = @ \ {w}])
       IN Commit(c, r.s, call, r.started, 0, now')
    /\ UNCHANGED <<issued, owed, returned>>

(***************************************************************************)
(* DeFiLlamaClient (bulk client)                                           *)
(***************************************************************************)
Fetches == {"getProtocols", "getPools", "getPoolChart", "getStablecoins"}
\* what a failing request throws
FetchErrors == {"timeout", "status 500"}
\* what a successful request returns
FetchData == {"data", "no data"}

\* withRetry: default value of retries
DEFAULT_RETRIES == 3
\* withRetry: default value of delay
INITIAL_DELAY_MS == 1000

\* no fetch has been made
NoFetch ==
  [fn |-> "", pc |-> "idle", retries |-> 0, delay |-> 0, wake |-> 0,
   count |-> 0,      \* fetches made so far
   tried |-> <<>>,   \* outcome of each attempt of the fetch, in order
   waited |-> <<>>,  \* the delays slept between the attempts
   result |-> "", error |-> ""]

\* withRetry without the doubling of the delay
NextDelaySame(delay) == delay

\* withRetry: the delay handed to the recursive call
NextDelay(delay) == delay * 2

\* withRetry(fn, retries, delay) is entered and calls fn
WithRetry(b, retries, delay) ==
  [b EXCEPT !.pc = "attempt", !.retries = retries, !.delay = delay]

\* getProtocols / getPools / getPoolChart / getStablecoins is called
Fetch(f) ==
  /\ bulk.pc \in {"idle", "returned", "thrown"}
  /\ bulk.count < MaxFetches
  /\ bulk' = WithRetry([NoFetch EXCEPT !.fn = f, !.count = bulk.count + 1],
                       DEFAULT_RETRIES, INITIAL_DELAY_MS)
  /\ UNCHANGED <<now, cgVars, syncVars, probe, details>>

\* "return await fn()": the request succeeded; the fetch returns its data
FetchReturns(d) ==
  /\ bulk.pc = "attempt"
  /\ bulk' = [bulk EXCEPT !.pc = "returned", !.result = d,
                          !.tried = Append(@, d)]
  /\ UNCHANGED <<now, cgVars, syncVars, probe, details>>

\* the catch block of withRetry: the request threw e
FetchThrows(e) ==
  /\ bulk.pc = "attempt"
  /\ IF bulk.retries <= 0
       THEN bulk' = [bulk EXCEPT !.pc = "thrown", !.error = e,
                                 !.tried = Append(@, e)]
       ELSE bulk' = [bulk EXCEPT !.pc = "wait", !.wake = now + bulk.delay,
                                 !.tried = Append(@, e)]
  /\ UNCHANGED <<now, cgVars, syncVars, probe, details>>

\* the setTimeout of withRetry is over: withRetry(fn, retries - 1, delay * 2)
FetchRetry ==
  /\ bulk.pc = "wait"
  /\ now' = Max(now, bulk.wake)
  /\ bulk' = [WithRetry(bulk, bulk.retries - 1, NextDelay(bulk.delay))
               EXCEPT !.waited = Append(@, now' - (bulk.wake - bulk.delay)),
                      !.wake = 0]
  /\ UNCHANGED <<cgVars, syncVars, probe, details>>

(***************************************************************************)
(* DeFiLlamaSyncService.syncProtocols.  Of the columns of a protocol the   *)
(* model keeps id, slug, chain, chains and tvl; tvl stands for the dynamic *)
(* columns, which the pass writes together.                                *)
(***************************************************************************)
BATCH_SIZE == 500

EVM_CHAINS ==
  {"ethereum", "bsc", "polygon", "arbitrum", "optimism", "avalanche", "base",
   "sonic", "berachain", "zksync", "zksync era", "fantom", "cronos",
   "gnosis", "moonbeam", "moonriver", "rootstock", "linea", "kava", "metis",
   "celo", "blast", "scroll", "mode", "mantle", "manta", "fraxtal",
   "unichain", "polygon zkevm", "sei", "swellchain", "taiko", "multi-chain"}

\* a conversion that leaves the letters as they are
toLowerCaseNone(name) == name

\* String.prototype.toLowerCase, on the chain names of the payloads
toLowerCase(name) ==
  CASE name \in {"Ethereum", "ETHEREUM"} -> "ethereum"
    [] name \in {"Solana", "SOLANA"} -> "solana"
    [] name \in {"BSC", "Bsc"} -> "bsc"
    [] name \in {"Multi-Chain", "MULTI-CHAIN"} -> "multi-chain"
    [] name = "zkSync Era" -> "zksync era"
    [] name = "Bitcoin" -> "bitcoin"
    [] name = "0xA0" -> "0xa0"
    [] OTHER -> name

\* a record of the /protocols payload
Protocol(id, slug, chain, chains, deadFrom, tvl) ==
  [id |-> id, slug |-> slug, chain |-> chain, chains |-> chains,
   deadFrom |-> deadFrom, tvl |-> tvl]

\* the records the provider may send; deadFrom is 0 when the field is absent
UpstreamProtocols ==
  {Protocol("1", "aave", "Ethereum", <<"Ethereum">>, 0, 10),
   Protocol("1", "aave", "Ethereum", <<"Ethereum">>, 0, 20),
   Protocol("2", "lido", "Solana", <<"Solana", "BSC">>, 0, 10),
   Protocol("3", "raydium", "Solana", <<"Solana">>, 0, 10),
   Protocol("4", "terra", "Ethereum", <<"Ethereum">>, 1650000000, 10)}

RECURSIVE SeqsUpTo(_, _)
SeqsUpTo(S, n) ==
  IF n = 0 THEN {<<>>}
  ELSE LET shorter == SeqsUpTo(S, n - 1)
       IN shorter \cup {Append(q, x) : q \in shorter, x \in S}

\* the k-th record of a payload that does not fit one chunk
BulkProtocol(k) ==
  Protocol(ToString(1000 + k), ToString(1000 + k), "Ethereum",
           <<"Ethereum">>, 0, 10)

\* payloads of more than BATCH_SIZE records
LongPayloads == {[k \in 1 .. BATCH_SIZE + 1 |-> BulkProtocol(k)]}

\* the payloads getProtocols may return
Payloads == SeqsUpTo(UpstreamProtocols, MaxPayload) \cup LongPayloads

\* what is under a key that was never set: the set of its values is empty
NoEntry == {}

\* the tables before the first write
EmptyStore ==
  [protocol |-> {}, pool |-> {}, poolToken |-> {}, poolChart |-> {},
   stablecoin |-> {}, cgCoinsIndex |-> {}, cgCoinPlatform |-> {},
   cgCoinDetails |-> {}]

\* the pools whose chart is asked for: p1 is in the stores of the passes, p3
\* is in the store of the chart runs only
ChartPools == {"p1", "p3"}

\* the cache before the first write; each key holds the set of the values
\* under it, none or one
EmptyCache ==
  [protocols |-> NoEntry, pools |-> NoEntry, stablecoins |-> NoEntry,
   poolchart |-> [poolId \in ChartPools |-> {}], cgInfo |-> {},
   cgPlatform |-> {}, cgDetails |-> {}]

\* a run is between its call and its return or throw, or the end of the
\* process
Running(pass) == pass.pc \notin {"idle", "done", "thrown", "crashed"}

\* no run of syncProtocols has been started
NoPass ==
  [pc |-> "idle", passes |-> 0, protocols |-> <<>>, evmProtocols |-> <<>>,
   existingProtocolIds |-> {}, protocolChunks |-> <<>>, i |-> 0,
   successCount |-> 0, errorCount |-> 0, skippedInactiveCount |-> 0,
   skippedNonEVMCount |-> 0, protocolsFromApi |-> 0, updatedCount |-> 0,
   newCount |-> 0,
   loaded |-> FALSE,     \* the existing ids have been read
   dbFailures |-> 0,     \* transactions the store failed for its own reasons
   before |-> <<>>,      \* payload of the previous run, until this one fetches
   beforeClean |-> FALSE, \* the previous run read the ids and no write failed
   repeat |-> "no",      \* this payload is the previous one: "clean", "failed"
   rowsBefore |-> 0,     \* protocol rows when the run started
   ops |-> <<>>,         \* the write transactions issued, in order
   cacheWrites |-> 0,    \* cache writes of the run that succeeded
   cacheFailures |-> 0]  \* cache writes of the run that threw

\* an entry of underlyingTokens that is a number, not a string
NumberEntry == "<number 42>"

\* a field the record of the payload does not have
Undefined == "<undefined>"

\* name.toLowerCase() throws a TypeError: name is undefined or is no string
toLowerCaseThrows(name) == name \in {Undefined, NumberEntry}

\* a record of the /pools payload; apy stands for the dynamic fields
Pool(pool, project, chain, apy, underlyingTokens) ==
  [pool |-> pool, project |-> project, chain |-> chain, apy |-> apy,
   underlyingTokens |-> underlyingTokens]

\* the pool records the provider may send
UpstreamPools ==
  {Pool("p1", "aave", "Ethereum", 5, <<"0xa">>),
   Pool("p1", "aave", "Ethereum", 7, <<"0xa">>),
   Pool("p2", "lido", "Solana", 5, <<>>),
   Pool("p3", "raydium", "Ethereum", 5, <<"0xa">>),
   Pool("p4", "lido", "BSC", 0, <<" 0xb ", "", " ", NumberEntry, "0xa">>)}

\* the k-th record of a pool payload that does not fit one chunk
BulkPool(k) == Pool(ToString(2000 + k), "aave", "Ethereum", 0, <<"0xa">>)

\* the payloads getPools may return
PoolPayloads ==
  SeqsUpTo(UpstreamPools, MaxPoolPayload)
    \cup {[k \in 1 .. BATCH_SIZE + 1 |-> BulkPool(k)]}

\* no run of syncPools has been started
NoPoolPass ==
  [pc |-> "idle", passes |-> 0, validProtocolSlugs |-> {},
   existingPoolIds |-> {}, pools |-> <<>>, evmPools |-> <<>>,
   poolChunks |-> <<>>, i |-> 0, tokenBatches |-> <<>>, b |-> 0, j |-> 0,
   successCount |-> 0, errorCount |-> 0, skippedCount |-> 0,
   skippedNonEVMCount |-> 0, poolsFromApi |-> 0, updatedCount |-> 0,
   newCount |-> 0,
   fetched |-> FALSE,    \* getPools has returned a payload that is not empty
   dbFailures |-> 0,     \* writes the store failed for its own reasons
   fkErrors |-> 0,       \* writes that broke the foreign key of Pool.project
   tokenFailures |-> 0,  \* token writes that threw
   ops |-> <<>>,         \* the write transactions issued, in order
   cacheWrites |-> 0,    \* cache writes of the run that succeeded
   cacheFailures |-> 0,  \* cache writes of the run that threw
   other |-> <<>>]       \* the frame of a second run, waiting at its await

\* no run of syncStablecoins has been started
NoStablePass ==
  [pc |-> "idle", passes |-> 0, stablecoins |-> <<>>,
   stablecoinChunks |-> <<>>, i |-> 1, successCount |-> 0, errorCount |-> 0,
   stablecoinsFromApi |-> 0,
   cacheWrites |-> 0,    \* cache writes of the run that succeeded
   cacheFailures |-> 0]  \* cache writes of the run that threw

\* no run of syncPoolChart has been started
NoChartPass ==
  [pc |-> "idle", passes |-> 0, poolId |-> "", sevenDaysAgo |-> 0,
   chartData |-> <<>>, recentChartData |-> <<>>, chartDataChunks |-> <<>>,
   i |-> 1, successCount |-> 0, errorCount |-> 0,
   \* what the run has seen and done, kept for the properties
   fetched |-> FALSE, complete |-> FALSE, cacheWrites |-> 0,
   cacheFailures |-> 0,
   before |-> <<>>, beforeClean |-> FALSE, repeat |-> FALSE,
   rowsBefore |-> {}]

\* no run of syncCoinsListAndPlatforms has been started
NoCoinPass ==
  [pc |-> "idle", passes |-> 0, coinsList |-> <<>>, coinsListChunks |-> <<>>,
   i |-> 1, processedCount |-> 0, platformEntriesCount |-> 0,
   committed |-> 0,      \* items of the batches whose transaction committed
   failed |-> 0,         \* items of the batches whose transaction threw
   cacheWrites |-> 0,    \* batches whose cache writes succeeded
   cacheFailures |-> 0]  \* batches whose cache writes threw

\* no call of getCoinDetailsAndStore has been made
NoDetails ==
  [pc |-> "idle", calls |-> 0,
   dbDetails |-> {},       \* the row findUnique gave, none or one
   now |-> 0,              \* new Date() of the staleness check
   result |-> {},          \* what the call returned, null or one record
   apiDetails |-> {},      \* the payload of the provider, none or one
   fetches |-> 0,          \* upstream calls of the call
   cacheThrew |-> FALSE]   \* redis.get threw

\* no record has been put to the chain filter
NoProbe ==
  [protocol |-> Protocol("", "", "", <<>>, 0, 0), applied |-> FALSE,
   verdict |-> FALSE, varied |-> FALSE, was |-> FALSE]

\* the frame with the transaction op ("create", "update") of chunk pass.i
\* recorded as issued
Issued(pass, op) ==
  [pass EXCEPT !.ops = Append(@, [op |-> op, chunk |-> pass.i])]

\* the frame with the outcome of a cache write recorded in it
Cached(pass, ok) ==
  IF ok THEN [pass EXCEPT !.cacheWrites = @ + 1]
  ELSE [pass EXCEPT !.cacheFailures = @ + 1]

\* the frame of a run that is over is dropped
Dropped(pass, none) == [none EXCEPT !.passes = pass.passes]

\* no run of syncAll has been started; "due" when the run is about to start
NoAll ==
  [pc |-> "idle", awaiting |-> FALSE, protocolsSuccess |-> FALSE,
   poolsSuccess |-> FALSE, stablecoinsSuccess |-> FALSE,
   topPoolsToSync |-> <<>>, k |-> 1,
   ran |-> <<>>,         \* the operations the run has called, in order
   ended |-> <<>>,       \* how each of them ended: "done", "thrown", and
                         \* "failed" for a chart refresh that logged an error
   job |-> FALSE]        \* the run is the hourly job of the charts

\* no sync operation is under way
Quiet ==
  ~Running(pp) /\ ~Running(poolPass) /\ ~Running(stablePass)
    /\ ~Running(chartPass) /\ ~Running(coinPass)
    /\ \A k \in DOMAIN poolPass.other : ~Running(poolPass.other[k])

\* sync operations started so far
Passes ==
  pp.passes + poolPass.passes + stablePass.passes + chartPass.passes
    + coinPass.passes

\* an operation is called on its own, or by syncAll when the run has come to
\* the statement that calls it
Called(step) ==
  IF all.pc = step /\ ~all.awaiting
  THEN all' = [all EXCEPT !.awaiting = TRUE, !.ran = Append(@, step)]
  ELSE all.pc = "idle" /\ Passes < MaxPasses /\ all' = all

RECURSIVE chunkArray(_, _)
chunkArray(array, size) ==
  IF Len(array) = 0 THEN <<>>
  ELSE IF Len(array) <= size THEN <<array>>
  ELSE <<SubSeq(array, 1, size)>>
         \o chunkArray(SubSeq(array, size + 1, Len(array)), size)

\* a filter that lets every chain through
isEVMCompatibleAll(protocol) == TRUE

isEVMCompatible(protocol) ==
  \/ toLowerCase(protocol.chain) \in EVM_CHAINS
  \/ \E k \in DOMAIN protocol.chains :
       toLowerCase(protocol.chains[k]) \in EVM_CHAINS

\* isEVMCompatible throws: the chain is no string, or the chain is not
\* supported and chains.some comes to an entry that is no string
isEVMCompatibleThrows(protocol) ==
  \/ protocol.chain = NumberEntry
  \/ /\ toLowerCase(protocol.chain) \notin EVM_CHAINS
     /\ \E k \in DOMAIN protocol.chains :
          /\ toLowerCaseThrows(protocol.chains[k])
          /\ \A j \in 1 .. k - 1 :
               toLowerCase(protocol.chains[j]) \notin EVM_CHAINS

\* a filter that lets the inactive protocols through
ActiveProtocolsAll(protocols) == protocols

\* protocols.filter((protocol) => !protocol.deadFrom)
ActiveProtocols(protocols) ==
  LET Active(protocol) == protocol.deadFrom = 0
  IN SelectSeq(protocols, Active)

EvmProtocols(activeProtocols) == SelectSeq(activeProtocols, isEVMCompatible)

\* activeProtocols.filter throws: isEVMCompatible throws on one of them
EvmProtocolsThrows(activeProtocols) ==
  \E k \in DOMAIN activeProtocols : isEVMCompatibleThrows(activeProtocols[k])

\* a partition that sends every record to create
NewProtocolsAll(chunk, existingProtocolIds) == chunk

\* chunk.filter((p) => !existingProtocolIds.has(p.id))
NewProtocols(chunk, existingProtocolIds) ==
  LET New(p) == p.id \notin existingProtocolIds
  IN SelectSeq(chunk, New)

\* chunk.filter((p) => existingProtocolIds.has(p.id))
ExistingProtocols(chunk, existingProtocolIds) ==
  LET Existing(p) == p.id \in existingProtocolIds
  IN SelectSeq(chunk, Existing)

\* the row prisma.protocol.create writes
CreateData(protocol) ==
  [id |-> protocol.id, slug |-> protocol.slug,
   chain |-> toLowerCase(protocol.chain),
   chains |-> [k \in DOMAIN protocol.chains |->
                 toLowerCase(protocol.chains[k])],
   tvl |-> protocol.tvl]

\* a create of the batch breaks the primary key or the unique slug
CreateConflict(table, ps) ==
  \E k \in DOMAIN ps :
    \/ \E row \in table : row.id = ps[k].id \/ row.slug = ps[k].slug
    \/ \E j \in 1 .. k - 1 : ps[j].id = ps[k].id \/ ps[j].slug = ps[k].slug

\* an update of the batch finds no row
UpdateMissing(table, ps) ==
  \E k \in DOMAIN ps : \A row \in table : row.id # ps[k].id

\* an update that writes every column of the record
UpdateRowAll(table, protocol) ==
  {IF row.id = protocol.id THEN CreateData(protocol) ELSE row : row \in table}

\* prisma.protocol.update: the dynamic columns of the row of protocol.id
UpdateRow(table, protocol) ==
  {IF row.id = protocol.id THEN [row EXCEPT !.tvl = protocol.tvl] ELSE row :
     row \in table}

\* the updates of the batch, in order: the last update of a row stays
UpdateAll(table, ps) ==
  UNION {LET hits == {k \in DOMAIN ps : ps[k].id = row.id}
         IN IF hits = {} THEN {row}
            ELSE UpdateRow({row},
                           ps[CHOOSE k \in hits : \A j \in hits : j <= k]) :
           row \in table}

\* a last statement that fetches the payload once more
FinalCheckFetchesAgain(p) == [p EXCEPT !.pc = "getProtocols"]

\* the last statement of syncProtocols
FinalCheck(p) ==
  IF p.errorCount = p.protocolsFromApi /\ p.protocolsFromApi > 0
  THEN [p EXCEPT !.pc = "thrown"]
  ELSE [p EXCEPT !.pc = "done"]

\* a pass that throws as soon as one write has failed
AfterLoopStrict(p) ==
  IF p.errorCount > 0
  THEN [p EXCEPT !.pc = "thrown"]
  ELSE IF p.successCount > 0
  THEN [p EXCEPT !.pc = "cache"]
  ELSE FinalCheck(p)

\* the statements that follow the loop over the chunks
AfterLoop(p) ==
  IF p.errorCount > 0 /\ p.successCount = 0
  THEN [p EXCEPT !.pc = "thrown"]
  ELSE IF p.successCount > 0
  THEN [p EXCEPT !.pc = "cache"]
  ELSE FinalCheck(p)

\* a loop body that handles the existing records of a chunk first
FirstBlockUpdate == "update"

\* the loop body handles the new records of a chunk, then the existing ones
FirstBlock == "create"

\* the position after the block of chunk p.i that handles the new records
\* ("create") or the existing ones ("update")
AfterBlock(p, block) ==
  IF block = FirstBlock
  THEN [p EXCEPT !.pc = IF block = "create" THEN "update" ELSE "create"]
  ELSE [p EXCEPT !.pc = FirstBlock, !.i = @ + 1]

\* the loop over the chunks, from position p.pc of chunk p.i up to the next
\* transaction it awaits
RECURSIVE NextAwait(_)
NextAwait(p) ==
  IF p.i > Len(p.protocolChunks) THEN AfterLoop(p)
  ELSE LET chunk == p.protocolChunks[p.i]
       IN IF p.pc = "create"
          THEN IF Len(NewProtocols(chunk, p.existingProtocolIds)) > 0
               THEN p
               ELSE NextAwait(AfterBlock(p, "create"))
          ELSE IF Len(ExistingProtocols(chunk, p.existingProtocolIds)) > 0
               THEN p
               ELSE NextAwait(AfterBlock(p, "update"))

syncProtocols ==
  /\ Quiet
  /\ Called("protocols")
  /\ pp' = [NoPass EXCEPT !.pc = "getProtocols", !.passes = pp.passes + 1,
                          !.before = pp.protocols,
                          !.beforeClean = pp.loaded /\ pp.errorCount = 0,
                          !.rowsBefore = Cardinality(db.protocol)]
  /\ poolPass' = Dropped(poolPass, NoPoolPass)
  /\ stablePass' = Dropped(stablePass, NoStablePass)
  /\ chartPass' = Dropped(chartPass, NoChartPass)
  /\ coinPass' = Dropped(coinPass, NoCoinPass)
  /\ UNCHANGED <<apart, db, cache>>

\* getProtocols returned: the filters, up to the read of the existing ids
GetProtocolsReturns(protocols) ==
  /\ pp.pc = "getProtocols"
  /\ LET activeProtocols == ActiveProtocols(protocols)
         evmProtocols == EvmProtocols(activeProtocols)
     IN pp' =
          IF Len(protocols) = 0
          THEN [pp EXCEPT !.pc = "done"]
          ELSE IF EvmProtocolsThrows(activeProtocols)
          THEN [pp EXCEPT !.pc = "thrown",    \* the catch block rethrows
                          !.before = <<>>,
                          !.protocols = protocols,
                          !.protocolsFromApi = Len(protocols),
                          !.skippedInactiveCount =
                             Len(protocols) - Len(activeProtocols)]
          ELSE [pp EXCEPT
                  !.pc = "findMany",
                  !.before = <<>>,
                  !.repeat = IF protocols # pp.before THEN "no"
                             ELSE IF pp.beforeClean THEN "clean" ELSE "failed",
                  !.protocols = protocols,
                  !.protocolsFromApi = Len(protocols),
                  !.skippedInactiveCount =
                     Len(protocols) - Len(activeProtocols),
                  !.evmProtocols = evmProtocols,
                  !.skippedNonEVMCount =
                     Len(activeProtocols) - Len(evmProtocols)]
  /\ UNCHANGED <<apart, all, db, cache, poolPass, stablePass, chartPass, coinPass>>

\* getProtocols threw: the catch block rethrows
GetProtocolsThrows ==
  /\ pp.pc = "getProtocols"
  /\ pp' = [pp EXCEPT !.pc = "thrown"]
  /\ UNCHANGED <<apart, all, db, cache, poolPass, stablePass, chartPass, coinPass>>

\* prisma.protocol.findMany({select: {id}}) returned (ok) or threw
LoadExisting(ok) ==
  /\ pp.pc = "findMany"
  /\ pp' =
       IF ok
       THEN NextAwait([pp EXCEPT
              !.pc = FirstBlock,
              !.loaded = TRUE,
              !.existingProtocolIds = {row.id : row \in db.protocol},
              !.protocolChunks = chunkArray(pp.evmProtocols, BATCH_SIZE),
              !.i = 1])
       ELSE [pp EXCEPT !.pc = "thrown"]
  /\ UNCHANGED <<apart, all, db, cache, poolPass, stablePass, chartPass, coinPass>>

\* prisma.$transaction(createOperations) of chunk pp.i; ok: the store itself
\* does not fail
CreateChunk(ok) ==
  /\ pp.pc = "create"
  /\ LET newProtocols ==
           NewProtocols(pp.protocolChunks[pp.i], pp.existingProtocolIds)
         n == Len(newProtocols)
         done == ok /\ ~CreateConflict(db.protocol, newProtocols)
     IN /\ db' = IF done
                  THEN [db EXCEPT !.protocol =
                          @ \cup {CreateData(newProtocols[k]) : k \in 1 .. n}]
                  ELSE db
        /\ pp' = NextAwait(AfterBlock(
                   IF done
                   THEN [Issued(pp, "create") EXCEPT
                           !.successCount = @ + n, !.newCount = @ + n]
                   ELSE [Issued(pp, "create") EXCEPT
                           !.errorCount = @ + n,
                           !.dbFailures = IF ok THEN @ ELSE @ + 1],
                   "create"))
  /\ UNCHANGED <<apart, all, cache, poolPass, stablePass, chartPass, coinPass>>

\* prisma.$transaction(updateOperations) of chunk pp.i
UpdateChunk(ok) ==
  /\ pp.pc = "update"
  /\ LET existingProtocols ==
           ExistingProtocols(pp.protocolChunks[pp.i], pp.existingProtocolIds)
         n == Len(existingProtocols)
         done == ok /\ ~UpdateMissing(db.protocol, existingProtocols)
     IN /\ db' = IF done
                  THEN [db EXCEPT !.protocol = UpdateAll(@, existingProtocols)]
                  ELSE db
        /\ pp' = NextAwait(AfterBlock(
                   IF done
                   THEN [Issued(pp, "update") EXCEPT
                           !.successCount = @ + n, !.updatedCount = @ + n]
                   ELSE [Issued(pp, "update") EXCEPT
                           !.errorCount = @ + n,
                           !.dbFailures = IF ok THEN @ ELSE @ + 1],
                   "update"))
  /\ UNCHANGED <<apart, all, cache, poolPass, stablePass, chartPass, coinPass>>

\* the columns of the cached protocol list
CacheRow(row) == [id |-> row.id, slug |-> row.slug, tvl |-> row.tvl]

\* findMany and redis.set("defillama:protocols:list") succeed (ok) or one of
\* them throws, which is logged; then the last statement
CacheProtocols(ok) ==
  /\ pp.pc = "cache"
  /\ cache' = IF ok
              THEN [cache EXCEPT !.protocols =
                      {{CacheRow(row) : row \in db.protocol}}]
              ELSE cache
  /\ pp' = FinalCheck(Cached(pp, ok))
  /\ UNCHANGED <<apart, all, db, poolPass, stablePass, chartPass, coinPass>>

(***************************************************************************)
(* DeFiLlamaSyncService.syncPools.  Of the columns of a pool the model     *)
(* keeps id, chain, project and apy; apy stands for the dynamic columns.   *)
(***************************************************************************)
TOKEN_BATCH_SIZE == 1000
\* a failed token batch shorter than this is retried record by record
SINGLE_CREATE_BELOW == 50
\* rows of the high-yield list
HIGH_YIELD_TAKE == 100

\* String.prototype.trim, on the token addresses of the payloads
trim(text) ==
  CASE text = " 0xb " -> "0xb"
    [] text = " " -> ""
    [] OTHER -> text

\* a filter that lets the pools of unknown protocols through
ValidPoolsAll(pools, validProtocolSlugs) == pools

\* pools.filter((pool) => validProtocolSlugs.has(pool.project))
ValidPools(pools, validProtocolSlugs) ==
  LET Valid(pool) == pool.project \in validProtocolSlugs
  IN SelectSeq(pools, Valid)

\* validPools.filter((pool) => EVM_CHAINS.has(pool.chain.toLowerCase()))
EvmPools(validPools) ==
  LET Evm(pool) == toLowerCase(pool.chain) \in EVM_CHAINS
  IN SelectSeq(validPools, Evm)

\* validPools.filter throws: pool.chain.toLowerCase() throws on one of them
EvmPoolsThrows(validPools) ==
  \E k \in DOMAIN validPools : toLowerCaseThrows(validPools[k].chain)

\* a partition that takes every pool of the chunk for a new one
NewPoolsAll(chunk, existingPoolIds) == chunk

\* chunk.filter((p) => !existingPoolIds.has(p.pool))
NewPools(chunk, existingPoolIds) ==
  LET New(p) == p.pool \notin existingPoolIds
  IN SelectSeq(chunk, New)

\* chunk.filter((p) => existingPoolIds.has(p.pool))
ExistingPools(chunk, existingPoolIds) ==
  LET Existing(p) == p.pool \in existingPoolIds
  IN SelectSeq(chunk, Existing)

\* an element of poolCreateData
PoolCreateData(pool) ==
  [id |-> pool.pool, chain |-> toLowerCase(pool.chain),
   project |-> pool.project, apy |-> pool.apy]

\* pool.createMany({data, skipDuplicates: true}): of the records of one id
\* the first is inserted, unless the table has a row of that id
CreateManyPools(table, ps) ==
  table \cup
    {PoolCreateData(ps[k]) :
       k \in {k \in DOMAIN ps :
               /\ \A row \in table : row.id # ps[k].pool
               /\ \A j \in 1 .. k - 1 : ps[j].pool # ps[k].pool}}

\* a pool of the batch names a project that is no slug of a protocol row
ForeignKeyError(protocols, ps) ==
  \E k \in DOMAIN ps : \A row \in protocols : row.slug # ps[k].project

\* typeof tokenAddress === "string"
typeofString(tokenAddress) == tokenAddress # NumberEntry

\* the token records of one pool without the validation of the entries
TokensOfUnchecked(pool) ==
  [k \in DOMAIN pool.underlyingTokens |->
     [poolId |-> pool.pool, tokenAddress |-> trim(pool.underlyingTokens[k]),
      chain |-> toLowerCase(pool.chain)]]

\* the token records of one pool that pass the first validation
TokensOf(pool) ==
  LET Usable(tokenAddress) ==
        /\ tokenAddress # ""
        /\ typeofString(tokenAddress)
        /\ trim(tokenAddress) # ""
      usable == SelectSeq(pool.underlyingTokens, Usable)
  IN [k \in DOMAIN usable |->
        [poolId |-> pool.pool, tokenAddress |-> trim(usable[k]),
         chain |-> toLowerCase(pool.chain)]]

\* allPoolTokensToCreate, and then validRecords: every field is present
ValidRecords(newPools) ==
  LET IsValid(record) ==
        record.poolId # "" /\ record.tokenAddress # "" /\ record.chain # ""
      RECURSIVE All(_, _)
      All(lo, hi) ==
        IF lo > hi THEN <<>>
        ELSE IF lo = hi THEN TokensOf(newPools[lo])
        ELSE All(lo, (lo + hi) \div 2) \o All((lo + hi) \div 2 + 1, hi)
  IN SelectSeq(All(1, Len(newPools)), IsValid)

\* a row of (poolId, tokenAddress) is in the table
TokenPresent(table, record) ==
  \E row \in table :
    row.poolId = record.poolId /\ row.tokenAddress = record.tokenAddress

\* poolToken.createMany({data, skipDuplicates: true})
CreateManyTokens(table, batch) ==
  table \cup
    {batch[k] :
       k \in {k \in DOMAIN batch :
               /\ ~TokenPresent(table, batch[k])
               /\ \A j \in 1 .. k - 1 :
                    \/ batch[j].poolId # batch[k].poolId
                    \/ batch[j].tokenAddress # batch[k].tokenAddress}}

\* prisma.pool.update of the batch, in order: the last update of a row stays
UpdatePoolRows(table, ps) ==
  {LET hits == {k \in DOMAIN ps : ps[k].pool = row.id}
   IN IF hits = {} THEN row
      ELSE [row EXCEPT !.apy =
              ps[CHOOSE k \in hits : \A j \in hits : j <= k].apy] :
     row \in table}

\* an update of the batch finds no row
PoolMissing(table, ps) ==
  \E k \in DOMAIN ps : \A row \in table : row.id # ps[k].pool

\* the last statement of syncPools
PoolFinalCheck(p) ==
  LET toProcess == p.poolsFromApi - p.skippedCount - p.skippedNonEVMCount
  IN IF p.errorCount = toProcess /\ toProcess > 0
     THEN [p EXCEPT !.pc = "thrown"]
     ELSE [p EXCEPT !.pc = "done"]

\* the statements that follow the loop over the chunks
PoolAfterLoop(p) ==
  IF p.successCount > 0 THEN [p EXCEPT !.pc = "cache"] ELSE PoolFinalCheck(p)

\* the loop over the chunks, from position p.pc of chunk p.i up to the next
\* write it awaits
RECURSIVE PoolNextAwait(_)
PoolNextAwait(p) ==
  IF p.i > Len(p.poolChunks) THEN PoolAfterLoop(p)
  ELSE LET chunk == p.poolChunks[p.i]
       IN IF p.pc = "create"
          THEN IF Len(NewPools(chunk, p.existingPoolIds)) > 0
               THEN p
               ELSE PoolNextAwait([p EXCEPT !.pc = "update"])
          ELSE IF Len(ExistingPools(chunk, p.existingPoolIds)) > 0
               THEN p
               ELSE PoolNextAwait([p EXCEPT !.pc = "create", !.i = @ + 1])

\* the new pools of chunk p.i are written: the counters, then the updates
PoolsCreated(p) ==
  LET n == Len(NewPools(p.poolChunks[p.i], p.existingPoolIds))
  IN PoolNextAwait([p EXCEPT !.pc = "update", !.tokenBatches = <<>>,
                             !.b = 0, !.j = 0,
                             !.successCount = @ + n, !.newCount = @ + n])

\* the loop over the token batches goes on to batch b
TokenNextAwait(p, b) ==
  IF b > Len(p.tokenBatches) THEN PoolsCreated(p)
  ELSE [p EXCEPT !.pc = "tokens", !.b = b, !.j = 0]

syncPools ==
  /\ Quiet
  /\ Called("pools")
  /\ poolPass' = [NoPoolPass EXCEPT !.pc = "findSlugs",
                                    !.passes = poolPass.passes + 1]
  /\ pp' = Dropped(pp, NoPass)
  /\ stablePass' = Dropped(stablePass, NoStablePass)
  /\ chartPass' = Dropped(chartPass, NoChartPass)
  /\ coinPass' = Dropped(coinPass, NoCoinPass)
  /\ UNCHANGED <<apart, db, cache>>

\* syncPools is called while a run of it waits at an await: nothing in
\* DefiLlamaSyncService, in the cron task or in the routes keeps a second
\* call back. The run that waits keeps its frame, the new one starts
syncPoolsOverlapping ==
  /\ Running(poolPass)
  /\ poolPass.other = <<>>
  /\ all.pc = "idle"
  /\ Passes < MaxPasses
  /\ poolPass' = [NoPoolPass EXCEPT !.pc = "findSlugs",
                                    !.passes = poolPass.passes + 1,
                                    !.other = <<poolPass>>]
  /\ UNCHANGED <<apart, all, db, cache, pp, stablePass, chartPass, coinPass>>

\* of two runs of syncPools that wait at an await, the call of the other one
\* is the next to return
OtherPassGoesOn ==
  /\ poolPass.other # <<>>
  /\ Running(poolPass.other[1])
  /\ poolPass' = [poolPass.other[1] EXCEPT
                    !.passes = poolPass.passes,
                    !.other = <<[poolPass EXCEPT !.other = <<>>]>>]
  /\ UNCHANGED <<apart, all, db, cache, pp, stablePass, chartPass, coinPass>>

\* prisma.protocol.findMany({select: {slug}}) returned (ok) or threw
LoadProtocolSlugs(ok) ==
  /\ poolPass.pc = "findSlugs"
  /\ poolPass' =
       IF ok
       THEN [poolPass EXCEPT
               !.pc = "findPools",
               !.validProtocolSlugs = {row.slug : row \in db.protocol}]
       ELSE [poolPass EXCEPT !.pc = "thrown"]
  /\ UNCHANGED <<apart, all, db, cache, pp, stablePass, chartPass, coinPass>>

\* prisma.pool.findMany({select: {id}}) returned (ok) or threw
LoadPoolIds(ok) ==
  /\ poolPass.pc = "findPools"
  /\ poolPass' =
       IF ok
       THEN [poolPass EXCEPT !.pc = "getPools",
                             !.existingPoolIds = {row.id : row \in db.pool}]
       ELSE [poolPass EXCEPT !.pc = "thrown"]
  /\ UNCHANGED <<apart, all, db, cache, pp, stablePass, chartPass, coinPass>>

\* getPools returned: the filters and the chunks, up to the first write
GetPoolsReturns(pools) ==
  /\ poolPass.pc = "getPools"
  /\ LET validPools == ValidPools(pools, poolPass.validProtocolSlugs)
         evmPools == EvmPools(validPools)
     IN poolPass' =
          IF Len(pools) = 0
          THEN [poolPass EXCEPT !.pc = "done"]
          ELSE IF EvmPoolsThrows(validPools)
          THEN [poolPass EXCEPT !.pc = "thrown",    \* the catch block rethrows
                                !.fetched = TRUE,
                                !.pools = pools,
                                !.poolsFromApi = Len(pools),
                                !.skippedCount = Len(pools) - Len(validPools)]
          ELSE PoolNextAwait([poolPass EXCEPT
                 !.pc = "create",
                 !.fetched = TRUE,
                 !.pools = pools,
                 !.poolsFromApi = Len(pools),
                 !.skippedCount = Len(pools) - Len(validPools),
                 !.evmPools = evmPools,
                 !.skippedNonEVMCount = Len(validPools) - Len(evmPools),
                 !.poolChunks = chunkArray(evmPools, BATCH_SIZE),
                 !.i = 1])
  /\ UNCHANGED <<apart, all, db, cache, pp, stablePass, chartPass, coinPass>>

\* getPools threw: the catch block rethrows
GetPoolsThrows ==
  /\ poolPass.pc = "getPools"
  /\ poolPass' = [poolPass EXCEPT !.pc = "thrown"]
  /\ UNCHANGED <<apart, all, db, cache, pp, stablePass, chartPass, coinPass>>

\* the transaction with a pool.createMany that does not skip duplicates: a
\* record whose id has a row makes it throw
CreatePoolsNoSkip(ok) ==
  /\ poolPass.pc = "create"
  /\ LET newPools ==
           NewPools(poolPass.poolChunks[poolPass.i], poolPass.existingPoolIds)
         duplicate ==
           \E k \in DOMAIN newPools : \E row \in db.pool :
             row.id = newPools[k].pool
         done == ok /\ ~ForeignKeyError(db.protocol, newPools) /\ ~duplicate
         validRecords == ValidRecords(newPools)
     IN /\ db' = IF done
                  THEN [db EXCEPT !.pool = CreateManyPools(@, newPools)]
                  ELSE db
        /\ poolPass' =
             IF done
             THEN TokenNextAwait(
                    [Issued(poolPass, "create") EXCEPT !.tokenBatches =
                       chunkArray(validRecords, TOKEN_BATCH_SIZE)], 1)
             ELSE PoolNextAwait(
                    [Issued(poolPass, "create") EXCEPT
                       !.pc = "update",
                       !.errorCount = @ + Len(newPools),
                       !.dbFailures = IF ok THEN @ ELSE @ + 1,
                       !.fkErrors =
                         IF ok /\ ForeignKeyError(db.protocol, newPools)
                         THEN @ + 1 ELSE @])
  /\ UNCHANGED <<apart, all, cache, pp, stablePass, chartPass, coinPass>>

\* the transaction with pool.createMany of chunk i, and the token records
\* that follow from it
CreatePools(ok) ==
  /\ poolPass.pc = "create"
  /\ LET newPools ==
           NewPools(poolPass.poolChunks[poolPass.i], poolPass.existingPoolIds)
         done == ok /\ ~ForeignKeyError(db.protocol, newPools)
         validRecords == ValidRecords(newPools)
     IN /\ db' = IF done
                  THEN [db EXCEPT !.pool = CreateManyPools(@, newPools)]
                  ELSE db
        /\ poolPass' =
             IF done
             THEN TokenNextAwait(
                    [Issued(poolPass, "create") EXCEPT !.tokenBatches =
                       chunkArray(validRecords, TOKEN_BATCH_SIZE)], 1)
             ELSE PoolNextAwait(
                    [Issued(poolPass, "create") EXCEPT
                       !.pc = "update",
                       !.errorCount = @ + Len(newPools),
                       !.dbFailures = IF ok THEN @ ELSE @ + 1,
                       !.fkErrors = IF ok THEN @ + 1 ELSE @])
  /\ UNCHANGED <<apart, all, cache, pp, stablePass, chartPass, coinPass>>

\* poolToken.createMany of token batch b returned (ok) or threw
CreateTokenBatch(ok) ==
  /\ poolPass.pc = "tokens"
  /\ LET tokenBatch == poolPass.tokenBatches[poolPass.b]
     IN IF ok
        THEN /\ db' = [db EXCEPT !.poolToken = CreateManyTokens(@, tokenBatch)]
             /\ poolPass' = TokenNextAwait(poolPass, poolPass.b + 1)
        ELSE /\ db' = db
             /\ LET p == [poolPass EXCEPT !.tokenFailures = @ + 1]
                IN poolPass' =
                     IF Len(tokenBatch) < SINGLE_CREATE_BELOW
                     THEN [p EXCEPT !.pc = "tokenOne", !.j = 1]
                     ELSE TokenNextAwait(p, p.b + 1)
  /\ UNCHANGED <<apart, all, cache, pp, stablePass, chartPass, coinPass>>

\* poolToken.create of record j of the failed batch returned or threw
CreateTokenOne(ok) ==
  /\ poolPass.pc = "tokenOne"
  /\ LET tokenBatch == poolPass.tokenBatches[poolPass.b]
         record == tokenBatch[poolPass.j]
     IN /\ db' = IF ok /\ ~TokenPresent(db.poolToken, record)
                  THEN [db EXCEPT !.poolToken = @ \cup {record}]
                  ELSE db
        /\ LET p == IF ok THEN poolPass
                     ELSE [poolPass EXCEPT !.tokenFailures = @ + 1]
           IN poolPass' =
                IF p.j < Len(tokenBatch)
                THEN [p EXCEPT !.j = @ + 1]
                ELSE TokenNextAwait(p, p.b + 1)
  /\ UNCHANGED <<apart, all, cache, pp, stablePass, chartPass, coinPass>>

\* prisma.$transaction(updateOperations) of chunk i
UpdatePools(ok) ==
  /\ poolPass.pc = "update"
  /\ LET existingPools ==
           ExistingPools(poolPass.poolChunks[poolPass.i],
                         poolPass.existingPoolIds)
         n == Len(existingPools)
         done == ok /\ ~PoolMissing(db.pool, existingPools)
     IN /\ db' = IF done
                  THEN [db EXCEPT !.pool = UpdatePoolRows(@, existingPools)]
                  ELSE db
        /\ poolPass' = PoolNextAwait(
                   IF done
                   THEN [Issued(poolPass, "update") EXCEPT
                           !.pc = "create", !.i = @ + 1,
                           !.successCount = @ + n,
                           !.updatedCount = @ + n]
                   ELSE [Issued(poolPass, "update") EXCEPT
                           !.pc = "create", !.i = @ + 1,
                           !.errorCount = @ + n,
                           !.dbFailures = IF ok THEN @ ELSE @ + 1])
  /\ UNCHANGED <<apart, all, cache, pp, stablePass, chartPass, coinPass>>

\* findMany({where: {apy: {gt: 0}}, orderBy: {apy: "desc"}, take: 100})
HighYieldPools(table) ==
  LET positive == {row \in table : row.apy > 0}
  IN IF Cardinality(positive) <= HIGH_YIELD_TAKE THEN positive
     ELSE CHOOSE top \in SUBSET positive :
            /\ Cardinality(top) = HIGH_YIELD_TAKE
            /\ \A a \in top : \A r \in positive \ top : a.apy >= r.apy

\* findMany and redis.set("defillama:pools:high-yield") succeed (ok) or one
\* of them throws, which is logged; then the last statement
CachePools(ok) ==
  /\ poolPass.pc = "cache"
  /\ cache' = IF ok
              THEN [cache EXCEPT !.pools = {HighYieldPools(db.pool)}]
              ELSE cache
  /\ poolPass' = PoolFinalCheck(Cached(poolPass, ok))
  /\ UNCHANGED <<apart, all, db, pp, stablePass, chartPass, coinPass>>

(***************************************************************************)
(* DeFiLlamaSyncService.syncStablecoins.  Of the columns of a stablecoin   *)
(* the model keeps id, price and chains.                                   *)
(***************************************************************************)
\* a record of the /stablecoins payload
Stablecoin(id, price, chains) ==
  [id |-> id, price |-> price, chains |-> chains]

\* the records the provider may send
UpstreamStablecoins ==
  {Stablecoin("1", 1, <<"Ethereum">>), Stablecoin("1", 2, <<"Ethereum">>),
   Stablecoin("2", 1, <<>>)}

\* the payloads getStablecoins may return: short ones, and one that does not
\* fit one chunk
StablePayloads ==
  SeqsUpTo(UpstreamStablecoins, MaxStablePayload)
    \cup {[k \in 1 .. BATCH_SIZE + 1 |->
             Stablecoin(ToString(1000 + k), 1, <<"Ethereum">>)]}

\* the row an upsert of the record writes
StablecoinData(coin) ==
  [id |-> coin.id, price |-> coin.price,
   chains |-> [k \in DOMAIN coin.chains |-> toLowerCase(coin.chains[k])]]

\* $transaction(chunk.map(stablecoin.upsert)): the upserts in the order of
\* the chunk, so that the last record of an id is the one that stays
UpsertStablecoins(table, chunk) ==
  LET ids == {chunk[k].id : k \in DOMAIN chunk}
      Last(id) == CHOOSE k \in DOMAIN chunk :
                    /\ chunk[k].id = id
                    /\ \A j \in DOMAIN chunk : chunk[j].id = id => j <= k
  IN {row \in table : row.id \notin ids}
       \cup {StablecoinData(chunk[Last(id)]) : id \in ids}

\* the last statement of syncStablecoins
StableFinalCheck(p) ==
  IF p.errorCount = p.stablecoinsFromApi /\ p.stablecoinsFromApi > 0
  THEN [p EXCEPT !.pc = "thrown"]
  ELSE [p EXCEPT !.pc = "done"]

\* the statements that follow the loop over the chunks
StableNextAwait(p) ==
  IF p.i <= Len(p.stablecoinChunks) THEN p
  ELSE IF p.successCount > 0 THEN [p EXCEPT !.pc = "cache"]
  ELSE StableFinalCheck(p)

syncStablecoins ==
  /\ Quiet
  /\ Called("stablecoins")
  /\ stablePass' = [NoStablePass EXCEPT !.pc = "fetch",
                                        !.passes = stablePass.passes + 1]
  /\ pp' = Dropped(pp, NoPass)
  /\ poolPass' = Dropped(poolPass, NoPoolPass)
  /\ chartPass' = Dropped(chartPass, NoChartPass)
  /\ coinPass' = Dropped(coinPass, NoCoinPass)
  /\ UNCHANGED <<apart, db, cache>>

\* getStablecoins returns; an empty payload ends the run
GetStablecoinsReturns(stablecoins) ==
  /\ stablePass.pc = "fetch"
  /\ stablePass' =
       IF Len(stablecoins) = 0 THEN [stablePass EXCEPT !.pc = "done"]
       ELSE [stablePass EXCEPT
               !.pc = "upsert", !.stablecoins = stablecoins,
               !.stablecoinsFromApi = Len(stablecoins),
               !.stablecoinChunks = chunkArray(stablecoins, BATCH_SIZE)]
  /\ UNCHANGED <<apart, all, db, cache, pp, poolPass, chartPass, coinPass>>

\* getStablecoins throws after its retries, and so does the run
GetStablecoinsThrows ==
  /\ stablePass.pc = "fetch"
  /\ stablePass' = [stablePass EXCEPT !.pc = "thrown"]
  /\ UNCHANGED <<apart, all, db, cache, pp, poolPass, chartPass, coinPass>>

\* the transaction of the chunk i commits (ok) or throws
UpsertChunk(ok) ==
  /\ stablePass.pc = "upsert"
  /\ LET chunk == stablePass.stablecoinChunks[stablePass.i]
     IN IF ok
        THEN /\ db' = [db EXCEPT
                         !.stablecoin = UpsertStablecoins(@, chunk)]
             /\ stablePass' =
                  StableNextAwait(
                    [stablePass EXCEPT !.i = @ + 1,
                                       !.successCount = @ + Len(chunk)])
        ELSE /\ stablePass' =
                  StableNextAwait(
                    [stablePass EXCEPT !.i = @ + 1,
                                       !.errorCount = @ + Len(chunk)])
             /\ UNCHANGED db
  /\ UNCHANGED <<apart, all, cache, pp, poolPass, chartPass, coinPass>>

\* findMany and redis.set("defillama:stablecoins:list") succeed (ok) or one
\* of them throws, which is logged; then the last statement
CacheStablecoins(ok) ==
  /\ stablePass.pc = "cache"
  /\ cache' = IF ok
              THEN [cache EXCEPT
                      !.stablecoins =
                        {{[id |-> row.id, price |-> row.price] :
                            row \in db.stablecoin}}]
              ELSE cache
  /\ stablePass' = StableFinalCheck(Cached(stablePass, ok))
  /\ UNCHANGED <<apart, all, db, pp, poolPass, chartPass, coinPass>>

(***************************************************************************)
(* DeFiLlamaSyncService.syncPoolChart.  Of the columns of a chart point    *)
(* the model keeps timestamp and tvlUsd; a timestamp is the value of the   *)
(* Date made from the ISO string of the payload.                           *)
(***************************************************************************)
DAY_MS == 24 * 60 * 60 * 1000

RETENTION_DAYS == 7

CHART_BATCH_SIZE == 100

\* a point of the /chart/{poolId} payload
Point(timestamp, tvlUsd) == [timestamp |-> timestamp, tvlUsd |-> tvlUsd]

\* the points the provider may send
UpstreamPoints ==
  {Point(Epoch, 100), Point(Epoch, 200), Point(Epoch + 8 * DAY_MS, 100)}

\* the series getPoolChart may return: short ones, and one that does not fit
\* one chunk
Series ==
  SeqsUpTo(UpstreamPoints, MaxSeries)
    \cup {[k \in 1 .. CHART_BATCH_SIZE + 1 |-> Point(Epoch + k, 100)]}

\* the days that pass between two operations
ElapseDays == {1, 8}

\* chartData.filter((point) => new Date(point.timestamp) >= sevenDaysAgo)
RecentChartData(chartData, sevenDaysAgo) ==
  LET Recent(point) == point.timestamp >= sevenDaysAgo
  IN SelectSeq(chartData, Recent)

\* poolChart.deleteMany({where: {poolId, timestamp: {lt: sevenDaysAgo}}})
DeleteManyCharts(table, poolId, sevenDaysAgo) ==
  {row \in table : ~(row.poolId = poolId /\ row.timestamp < sevenDaysAgo)}

\* the value of @default(uuid()) for the k-th row of an insert: a value no
\* row of the table has
Uuid(table, k) ==
  LET ids == {row.id : row \in table}
      top == IF ids = {} THEN 0 ELSE CHOOSE x \in ids : \A y \in ids : y <= x
  IN top + k

\* poolChart.createMany({data, skipDuplicates: true}): the only unique
\* column of the table is id, so that a row is skipped only for its id
CreateManyCharts(table, poolId, chunk) ==
  LET data == {[id |-> Uuid(table, k), poolId |-> poolId,
                timestamp |-> chunk[k].timestamp, tvlUsd |-> chunk[k].tvlUsd] :
                 k \in DOMAIN chunk}
  IN table \cup {row \in data : ~\E old \in table : old.id = row.id}

\* the relation of a chart point to its pool
ChartForeignKeyError(table, poolId) == ~\E row \in table : row.id = poolId

\* the statement after the loop over the chunks
ChartNextAwait(p) ==
  IF p.i > Len(p.chartDataChunks) THEN [p EXCEPT !.pc = "cache"] ELSE p

syncPoolChart(poolId) ==
  /\ Quiet
  /\ Called("charts")
  /\ all.pc = "charts" => poolId = all.topPoolsToSync[all.k]
  /\ chartPass' =
       [NoChartPass EXCEPT
          !.pc = "fetch", !.passes = chartPass.passes + 1,
          !.poolId = poolId,
          !.sevenDaysAgo = now - RETENTION_DAYS * DAY_MS,
          !.before = chartPass.chartData,
          !.beforeClean = chartPass.complete /\ chartPass.poolId = poolId,
          !.rowsBefore = db.poolChart]
  /\ pp' = Dropped(pp, NoPass)
  /\ poolPass' = Dropped(poolPass, NoPoolPass)
  /\ stablePass' = Dropped(stablePass, NoStablePass)
  /\ coinPass' = Dropped(coinPass, NoCoinPass)
  /\ UNCHANGED <<apart, db, cache>>

\* getPoolChart returns, and the run goes on to deleteMany whatever the
\* length of the series
GetPoolChartReturnsUnchecked(chartData) ==
  /\ chartPass.pc = "fetch"
  /\ \A k \in DOMAIN chartData : chartData[k].timestamp <= now
  /\ chartPass' =
       [chartPass EXCEPT
          !.pc = "delete", !.chartData = chartData, !.fetched = TRUE,
          !.repeat = chartPass.beforeClean /\ chartPass.before = chartData,
          !.before = <<>>,
          !.recentChartData =
             RecentChartData(chartData, chartPass.sevenDaysAgo)]
  /\ UNCHANGED <<apart, all, db, cache, pp, poolPass, stablePass, coinPass>>

\* getPoolChart returns; an empty series ends the run
GetPoolChartReturns(chartData) ==
  /\ chartPass.pc = "fetch"
  /\ \A k \in DOMAIN chartData : chartData[k].timestamp <= now
  /\ LET recent == RecentChartData(chartData, chartPass.sevenDaysAgo)
         p == [chartPass EXCEPT
                 !.chartData = chartData, !.fetched = TRUE,
                 !.repeat = chartPass.beforeClean
                              /\ chartPass.before = chartData,
                 !.before = <<>>]
     IN chartPass' =
          IF Len(chartData) = 0 THEN [p EXCEPT !.pc = "done"]
          ELSE [p EXCEPT !.pc = "delete", !.recentChartData = recent]
  /\ UNCHANGED <<apart, all, db, cache, pp, poolPass, stablePass, coinPass>>

\* a syncPoolChart that throws the error of getPoolChart to its caller
GetPoolChartRethrows ==
  /\ chartPass.pc = "fetch"
  /\ chartPass' = [chartPass EXCEPT !.pc = "thrown", !.before = <<>>]
  /\ UNCHANGED <<apart, all, db, cache, pp, poolPass, stablePass, coinPass>>

\* getPoolChart throws after its retries; the error is logged
GetPoolChartThrows ==
  /\ chartPass.pc = "fetch"
  /\ chartPass' = [chartPass EXCEPT !.pc = "done", !.before = <<>>]
  /\ UNCHANGED <<apart, all, db, cache, pp, poolPass, stablePass, coinPass>>

\* deleteMany succeeds (ok) or throws, which ends the run
DeleteOldCharts(ok) ==
  /\ chartPass.pc = "delete"
  /\ IF ok
     THEN /\ db' = [db EXCEPT
                      !.poolChart =
                        DeleteManyCharts(@, chartPass.poolId,
                                         chartPass.sevenDaysAgo)]
          /\ chartPass' =
               ChartNextAwait(
                 [chartPass EXCEPT
                    !.pc = "create",
                    !.chartDataChunks =
                      chunkArray(chartPass.recentChartData,
                                 CHART_BATCH_SIZE)])
     ELSE /\ chartPass' = [chartPass EXCEPT !.pc = "done"]
          /\ UNCHANGED db
  /\ UNCHANGED <<apart, all, cache, pp, poolPass, stablePass, coinPass>>

\* createMany of the chunk i succeeds (ok, and the pool exists) or throws
CreateChartChunk(ok) ==
  /\ chartPass.pc = "create"
  /\ LET chunk == chartPass.chartDataChunks[chartPass.i]
         written == CreateManyCharts(db.poolChart, chartPass.poolId, chunk)
     IN IF ok /\ ~ChartForeignKeyError(db.pool, chartPass.poolId)
        THEN /\ db' = [db EXCEPT !.poolChart = written]
             /\ chartPass' =
                  ChartNextAwait(
                    [chartPass EXCEPT
                       !.i = @ + 1,
                       !.successCount =
                         @ + Cardinality(written) - Cardinality(db.poolChart)])
        ELSE /\ chartPass' =
                  ChartNextAwait(
                    [chartPass EXCEPT !.i = @ + 1,
                                      !.errorCount = @ + Len(chunk)])
             /\ UNCHANGED db
  /\ UNCHANGED <<apart, all, cache, pp, poolPass, stablePass, coinPass>>

\* redis.set("defillama:poolchart:" + poolId) succeeds (ok) or throws, which
\* is logged; then the run returns
CacheChart(ok) ==
  /\ chartPass.pc = "cache"
  /\ cache' = IF ok
              THEN [cache EXCEPT
                      !.poolchart[chartPass.poolId] =
                        {chartPass.recentChartData}]
              ELSE cache
  /\ chartPass' = [Cached(chartPass, ok) EXCEPT
                     !.pc = "done", !.complete = chartPass.errorCount = 0]
  /\ UNCHANGED <<apart, all, db, pp, poolPass, stablePass, coinPass>>

\* days pass between two operations
Elapse(days) ==
  /\ Quiet
  /\ now + days * DAY_MS <= Epoch + MaxDays * DAY_MS
  /\ now' = now + days * DAY_MS
  /\ chartPass' = Dropped(chartPass, NoChartPass)
  /\ UNCHANGED <<cgVars, bulk, probe, details, db, cache, pp, poolPass,
                 stablePass, coinPass, all>>

(***************************************************************************)
(* CoinGeckoService.syncCoinsListAndPlatforms.  The list is what           *)
(* getCoinsList has returned, which is empty when its request failed.      *)
(***************************************************************************)
COIN_BATCH_SIZE == 100

\* an item of the /coins/list payload; platforms is a sequence of pairs of a
\* platform id and a contract address
Coin(id, symbol, name, platforms) ==
  [id |-> id, symbol |-> symbol, name |-> name, platforms |-> platforms]

\* the items the provider may send
UpstreamCoins ==
  {Coin("bitcoin", "btc", "Bitcoin", <<>>),
   Coin("usd-coin", "usdc", "USDC",
        <<<<"ethereum", "0xA0">>, <<"solana", "">>>>),
   Coin("", "x", "X", <<>>)}

\* the lists getCoinsList may return: short ones, and one that does not fit
\* one batch
CoinLists ==
  SeqsUpTo(UpstreamCoins, MaxCoinList)
    \cup {[k \in 1 .. COIN_BATCH_SIZE + 1 |->
             Coin(ToString(1000 + k), "c", "C", <<>>)]}

\* what has become of the redis.set promises of a batch when its transaction
\* settles: they are made before the transaction is awaited and get their
\* handler from Promise.all, after it
SetOutcomes == {"pending", "fulfilled", "rejected"}

\* the items of a batch that have id, symbol and name
PreparedCoins(batch) ==
  {k \in DOMAIN batch :
     batch[k].id # "" /\ batch[k].symbol # "" /\ batch[k].name # ""}

\* the platform entries of an item that have a platform id and an address
PreparedPlatforms(coin) ==
  {n \in DOMAIN coin.platforms :
     coin.platforms[n][1] # "" /\ coin.platforms[n][2] # ""}

\* $transaction of the upserts of a batch: an index row per item, the last
\* item of an id staying, and a platform row per entry unless it is there
UpsertCoins(table, batch) ==
  LET ks == PreparedCoins(batch)
      ids == {batch[k].id : k \in ks}
      Last(id) == CHOOSE k \in ks :
                    /\ batch[k].id = id
                    /\ \A j \in ks : batch[j].id = id => j <= k
      Row(k) == [id |-> batch[k].id, symbol |-> batch[k].symbol,
                 name |-> batch[k].name]
  IN {row \in table : row.id \notin ids} \cup {Row(Last(id)) : id \in ids}

UpsertPlatforms(table, batch) ==
  table \cup
    UNION {{[cgId |-> batch[k].id, platformId |-> batch[k].platforms[n][1],
             contractAddress |-> toLowerCase(batch[k].platforms[n][2])] :
              n \in PreparedPlatforms(batch[k])} : k \in PreparedCoins(batch)}

\* the entries redis.set writes for a batch, over the entries of their keys
SetCoinInfo(entries, batch) ==
  LET ks == PreparedCoins(batch)
      ids == {batch[k].id : k \in ks}
      Last(id) == CHOOSE k \in ks :
                    /\ batch[k].id = id
                    /\ \A j \in ks : batch[j].id = id => j <= k
      Entry(k) == [key |-> batch[k].id, symbol |-> batch[k].symbol,
                   name |-> batch[k].name]
  IN {e \in entries : e.key \notin ids} \cup {Entry(Last(id)) : id \in ids}

SetCoinPlatforms(entries, batch) ==
  LET new == UNION {{[key |-> <<batch[k].platforms[n][1],
                               toLowerCase(batch[k].platforms[n][2])>>,
                      value |-> batch[k].id] :
                       n \in PreparedPlatforms(batch[k])} :
                      k \in PreparedCoins(batch)}
  IN {e \in entries : ~\E w \in new : w.key = e.key} \cup new

\* the cache after the writes of a batch
SetCoins(c, batch) ==
  [c EXCEPT !.cgInfo = SetCoinInfo(@, batch),
            !.cgPlatform = SetCoinPlatforms(@, batch)]

\* the loop over the items of batch p.i, up to the transaction it awaits; the
\* run returns after the last batch
CoinNextAwait(p) ==
  IF p.i > Len(p.coinsListChunks) THEN [p EXCEPT !.pc = "done"]
  ELSE LET batch == p.coinsListChunks[p.i]
           ks == PreparedCoins(batch)
           entries == [k \in ks |-> Cardinality(PreparedPlatforms(batch[k]))]
           RECURSIVE Sum(_)
           Sum(S) == IF S = {} THEN 0
                     ELSE LET k == CHOOSE x \in S : TRUE
                          IN entries[k] + Sum(S \ {k})
       IN [p EXCEPT !.pc = "transaction",
                    !.processedCount = @ + Cardinality(ks),
                    !.platformEntriesCount =
                      @ + Sum({k \in ks : entries[k] > 0})]

syncCoinsListAndPlatforms ==
  /\ Quiet
  /\ Called("coins")
  /\ coinPass' = [NoCoinPass EXCEPT !.pc = "fetch",
                                    !.passes = coinPass.passes + 1]
  /\ pp' = Dropped(pp, NoPass)
  /\ poolPass' = Dropped(poolPass, NoPoolPass)
  /\ stablePass' = Dropped(stablePass, NoStablePass)
  /\ chartPass' = Dropped(chartPass, NoChartPass)
  /\ UNCHANGED <<apart, db, cache>>

\* getCoinsList returns; an empty list ends the run
GetCoinsListReturns(coinsList) ==
  /\ coinPass.pc = "fetch"
  /\ coinPass' =
       IF Len(coinsList) = 0 THEN [coinPass EXCEPT !.pc = "done"]
       ELSE CoinNextAwait(
              [coinPass EXCEPT
                 !.coinsList = coinsList,
                 !.coinsListChunks = chunkArray(coinsList, COIN_BATCH_SIZE)])
  /\ UNCHANGED <<apart, all, db, cache, pp, poolPass, stablePass, chartPass>>

\* the transaction of batch i commits (ok) or throws, while the redis.set
\* promises of the batch are in the state sets.  A promise that has rejected
\* without a handler ends the process.  After a transaction that threw, the
\* promises never get a handler; they settle on their own.
CoinTransaction(ok, sets) ==
  /\ coinPass.pc = "transaction"
  /\ ok => sets # "fulfilled"
  /\ ~ok => sets # "pending"
  /\ LET batch == coinPass.coinsListChunks[coinPass.i]
         n == Cardinality(PreparedCoins(batch))
         p == IF ok THEN [coinPass EXCEPT !.committed = @ + n]
              ELSE [coinPass EXCEPT !.failed = @ + n]
     IN /\ db' = IF ok
                 THEN [db EXCEPT
                         !.cgCoinsIndex = UpsertCoins(@, batch),
                         !.cgCoinPlatform = UpsertPlatforms(@, batch)]
                 ELSE db
        /\ cache' = IF sets = "fulfilled" THEN SetCoins(cache, batch)
                    ELSE cache
        /\ coinPass' =
             IF sets = "rejected"
             THEN [Cached(p, FALSE) EXCEPT !.pc = "crashed"]
             ELSE IF ok THEN [p EXCEPT !.pc = "redis"]
             ELSE CoinNextAwait([Cached(p, TRUE) EXCEPT !.i = @ + 1])
  /\ UNCHANGED <<apart, all, pp, poolPass, stablePass, chartPass>>

\* Promise.all(redisPromises) resolves (ok) or throws, which is logged
CoinPromiseAll(ok) ==
  /\ coinPass.pc = "redis"
  /\ cache' = IF ok
              THEN SetCoins(cache, coinPass.coinsListChunks[coinPass.i])
              ELSE cache
  /\ coinPass' = CoinNextAwait([Cached(coinPass, ok) EXCEPT !.i = @ + 1])
  /\ UNCHANGED <<apart, all, db, pp, poolPass, stablePass, chartPass>>

(***************************************************************************)
(* CoinGeckoService.getCoinDetailsAndStore, called for one coin.  The clock *)
(* moves between the calls; a call is over long before an hour has passed.  *)
(***************************************************************************)
HOUR_MS == 60 * 60 * 1000

\* "now.getTime() - 12 * 60 * 60 * 1000"
UPDATE_THRESHOLD_MS == 12 * 60 * 60 * 1000

\* cacheDurationSeconds of setCoinDetailsCache, in milliseconds
CACHE_DURATION_MS == 12 * 60 * 60 * 1000

\* the coin the calls ask for
DetailsCoin == Coin("bitcoin", "btc", "Bitcoin", <<>>)

\* what /coins/{id} may answer: the payload stands for its fields
ApiDetails == {"v1", "v2"}

\* the hours that may pass between two calls
ElapseHours == {6}

\* a row of CgCoinDetails
CoinDetails(data, fetchedAt) ==
  [cgId |-> DetailsCoin.id, data |-> data, dataFetchedAt |-> fetchedAt]

\* "dbDetails && dbDetails.dataFetchedAt > updateThreshold", never
RecentNever(rows, t) == FALSE

\* "dbDetails && dbDetails.dataFetchedAt > updateThreshold"
Recent(rows, t) ==
  \E row \in rows : row.dataFetchedAt > t - UPDATE_THRESHOLD_MS

\* redis.set(key, value, {ex}): the entry of the key and when it expires
SetDetails(entries, value, t) ==
  {[key |-> DetailsCoin.id, value |-> value,
    expires |-> t + CACHE_DURATION_MS]}

\* the entries the cache still holds at t
Unexpired(entries, t) == {e \in entries : e.expires > t}

\* a call is between its first await and its return or throw
InDetails == details.pc \notin {"idle", "done", "thrown"}

\* the call returns value, null being no record
DetailsReturn(d, value) == [d EXCEPT !.pc = "done", !.result = value]

\* setCoinDetailsCache(cgId, value) is next, then "return value"
DetailsCache(d, value) == [d EXCEPT !.pc = "setCache", !.result = value]

getCoinDetailsAndStore ==
  /\ ~InDetails
  /\ details.calls < MaxDetailsCalls
  /\ details' = [NoDetails EXCEPT !.pc = "findCoin",
                                  !.calls = details.calls + 1]
  /\ UNCHANGED <<now, cgVars, bulk, probe, syncVars>>

\* cgCoinsIndex.findUnique returns or throws; it is awaited outside the try
\* blocks
FindCoin(ok) ==
  /\ details.pc = "findCoin"
  /\ details' =
       IF ~ok THEN [details EXCEPT !.pc = "thrown"]
       ELSE IF \E row \in db.cgCoinsIndex : row.id = DetailsCoin.id
         THEN [details EXCEPT !.pc = "getCache"]
         ELSE [details EXCEPT !.pc = "getCoinsList"]
  /\ UNCHANGED <<now, cgVars, bulk, probe, syncVars>>

\* getCoinsList(true) returns a list that has the coin or has not, or throws
DetailsCoinsList(outcome) ==
  /\ details.pc = "getCoinsList"
  /\ details' =
       IF outcome = "found"
         THEN [details EXCEPT !.pc = "createCoin", !.fetches = @ + 1]
         ELSE [DetailsReturn(details, {}) EXCEPT !.fetches = @ + 1]
  /\ UNCHANGED <<now, cgVars, bulk, probe, syncVars>>

\* cgCoinsIndex.create returns or throws
CreateCoin(ok) ==
  /\ details.pc = "createCoin"
  /\ db' = IF ok
           THEN [db EXCEPT !.cgCoinsIndex =
                   @ \cup {[id |-> DetailsCoin.id,
                            symbol |-> DetailsCoin.symbol,
                            name |-> DetailsCoin.name]}]
           ELSE db
  /\ details' = IF ok THEN [details EXCEPT !.pc = "getCache"]
                ELSE DetailsReturn(details, {})
  /\ UNCHANGED <<now, cgVars, bulk, probe, cache, pp, poolPass, stablePass, chartPass,
                 coinPass, all>>

\* getCoinDetailsFromCache: redis.get returns what is under the key, or
\* throws, which gives null
GetDetailsCache(ok) ==
  /\ details.pc = "getCache"
  /\ details' =
       IF ok /\ cache.cgDetails # {}
         THEN DetailsReturn(details, {e.value : e \in cache.cgDetails})
         ELSE [details EXCEPT !.pc = "findDetails", !.cacheThrew = ~ok]
  /\ UNCHANGED <<now, cgVars, bulk, probe, syncVars>>

\* cgCoinDetails.findUnique returns or throws, and the check of the age of
\* the row
FindDetails(ok) ==
  /\ details.pc = "findDetails"
  /\ details' =
       IF ~ok THEN DetailsReturn(details, {})
       ELSE IF Recent(db.cgCoinDetails, now)
         THEN [DetailsCache(details, db.cgCoinDetails) EXCEPT
                 !.dbDetails = db.cgCoinDetails, !.now = now]
         ELSE [details EXCEPT !.pc = "getApi",
                              !.dbDetails = db.cgCoinDetails, !.now = now]
  /\ UNCHANGED <<now, cgVars, bulk, probe, syncVars>>

\* getCoinDetailsFromApi returns the payload
DetailsApiReturns(data) ==
  /\ details.pc = "getApi"
  /\ details' = [details EXCEPT !.pc = "upsert", !.apiDetails = {data},
                                !.fetches = @ + 1]
  /\ UNCHANGED <<now, cgVars, bulk, probe, syncVars>>

\* getCoinDetailsFromApi returns null: the request failed
DetailsApiFails ==
  /\ details.pc = "getApi"
  /\ details' =
       IF details.dbDetails # {}
         THEN [DetailsCache(details, details.dbDetails) EXCEPT
                 !.fetches = @ + 1]
         ELSE [DetailsReturn(details, {}) EXCEPT !.fetches = @ + 1]
  /\ UNCHANGED <<now, cgVars, bulk, probe, syncVars>>

\* the row cgCoinDetails.upsert writes: "dataFetchedAt: now" in create and in
\* update
UpsertRow(d) ==
  {CoinDetails(data, d.now) : data \in d.apiDetails}

\* cgCoinDetails.upsert returns or throws; the index row is there, so it does
\* not throw for the foreign key
UpsertDetails(ok) ==
  /\ details.pc = "upsert"
  /\ db' = IF ok THEN [db EXCEPT !.cgCoinDetails = UpsertRow(details)]
           ELSE db
  /\ details' =
       IF ok THEN DetailsCache(details, UpsertRow(details))
       ELSE IF details.dbDetails # {}
         THEN DetailsCache(details, details.dbDetails)
         ELSE DetailsReturn(details, {})
  /\ UNCHANGED <<now, cgVars, bulk, probe, cache, pp, poolPass, stablePass, chartPass,
                 coinPass, all>>

\* setCoinDetailsCache: redis.set returns or throws, then the call returns
SetDetailsCache(ok) ==
  /\ details.pc = "setCache"
  /\ cache' = IF ok
              THEN [cache EXCEPT
                      !.cgDetails = SetDetails(@, details.result, now)]
              ELSE cache
  /\ details' = [details EXCEPT !.pc = "done"]
  /\ UNCHANGED <<now, cgVars, bulk, probe, db, pp, poolPass, stablePass, chartPass,
                 coinPass, all>>

\* time passes between two calls; the entries whose time is over are gone
DetailsElapse(hours) ==
  /\ ~InDetails
  /\ now + hours * HOUR_MS <= Epoch + MaxDetailsHours * HOUR_MS
  /\ now' = now + hours * HOUR_MS
  /\ cache' = [cache EXCEPT !.cgDetails = Unexpired(@, now')]
  /\ UNCHANGED <<cgVars, bulk, probe, details, db, pp, poolPass, stablePass,
                 chartPass, coinPass, all>>

(***************************************************************************)
(* DeFiLlamaSyncService.syncAll.  The run calls the operations above and   *)
(* goes on when the one it awaits has returned or thrown.                  *)
(***************************************************************************)
TOP_POOLS_MIN_APY == 5

TOP_POOLS_TAKE == 10

\* pool.findMany({where: {tvlUsd: {gt: 1_000_000}, apy: {gt: 5}}, orderBy:
\* {apy: "desc"}, take: 10}): the lists of ids the query may give; apy stands
\* for the two columns of the condition, and rows of equal apy come in any
\* order
TopPoolLists(table) ==
  LET rows == {row \in table : row.apy > TOP_POOLS_MIN_APY}
      n == IF Cardinality(rows) < TOP_POOLS_TAKE THEN Cardinality(rows)
           ELSE TOP_POOLS_TAKE
      Apy(id) == (CHOOSE row \in rows : row.id = id).apy
  IN {list \in [1 .. n -> {row.id : row \in rows}] :
        /\ \A i, j \in 1 .. n : i < j =>
              list[i] # list[j] /\ Apy(list[i]) >= Apy(list[j])
        /\ \A row \in rows :
              (\A i \in 1 .. n : list[i] # row.id) =>
                \A i \in 1 .. n : Apy(list[i]) >= row.apy}

\* a last statement that throws when one of the three has failed
AllFinalCheckAny(a) ==
  IF ~a.protocolsSuccess \/ ~a.poolsSuccess \/ ~a.stablecoinsSuccess
  THEN [a EXCEPT !.pc = "thrown", !.awaiting = FALSE]
  ELSE [a EXCEPT !.pc = "done", !.awaiting = FALSE]

\* the last statement of syncAll
AllFinalCheck(a) ==
  IF ~a.protocolsSuccess /\ ~a.poolsSuccess /\ ~a.stablecoinsSuccess
  THEN [a EXCEPT !.pc = "thrown", !.awaiting = FALSE]
  ELSE [a EXCEPT !.pc = "done", !.awaiting = FALSE]

HOURLY_MIN_APY == 10

HOURLY_TAKE == 20

\* the query of the hourly job: pool.findMany({where: {tvlUsd: {gt: 1000000},
\* apy: {gt: 10}}, orderBy: {apy: "desc"}, take: 20})
HourlyPoolLists(table) ==
  LET rows == {row \in table : row.apy > HOURLY_MIN_APY}
      n == IF Cardinality(rows) < HOURLY_TAKE THEN Cardinality(rows)
           ELSE HOURLY_TAKE
      Apy(id) == (CHOOSE row \in rows : row.id = id).apy
  IN {list \in [1 .. n -> {row.id : row \in rows}] :
        /\ \A i, j \in 1 .. n : i < j =>
              list[i] # list[j] /\ Apy(list[i]) >= Apy(list[j])
        /\ \A row \in rows :
              (\A i \in 1 .. n : list[i] # row.id) =>
                \A i \in 1 .. n : Apy(list[i]) >= row.apy}

\* what follows the loop over the selected pools: the callback of the job
\* returns, syncAll goes to its last statement
AfterCharts(a) ==
  IF a.job THEN [a EXCEPT !.pc = "done", !.awaiting = FALSE]
  ELSE AllFinalCheck(a)

\* an error leaves the loop over the selected pools: the job logs it in its
\* catch block, syncAll throws it
ChartThrown(a) ==
  IF a.job THEN [a EXCEPT !.pc = "done", !.awaiting = FALSE]
  ELSE [a EXCEPT !.pc = "thrown", !.awaiting = FALSE]

\* syncPoolChart has logged an error: of the fetch, of deleteMany or of a
\* createMany
ChartFailed(p) ==
  \/ ~p.fetched
  \/ p.errorCount > 0
  \/ Len(p.chartData) > 0 /\ p.cacheWrites + p.cacheFailures = 0

\* the callback of the hourly cron job is called
hourlyChartJob ==
  /\ all.pc = "due"
  /\ Quiet
  /\ all' = [all EXCEPT !.pc = "findMany", !.job = TRUE]
  /\ UNCHANGED <<apart, db, cache, pp, poolPass, stablePass, chartPass,
                 coinPass>>

syncAll ==
  /\ all.pc = "due"
  /\ Quiet
  /\ all' = [all EXCEPT !.pc = "protocols"]
  /\ UNCHANGED <<apart, db, cache, pp, poolPass, stablePass, chartPass,
                 coinPass>>

\* a run that an error of syncProtocols ends
ProtocolsSettledRethrows ==
  /\ all.pc = "protocols" /\ all.awaiting /\ ~Running(pp)
  /\ all' = IF pp.pc = "thrown"
            THEN [all EXCEPT !.pc = "thrown", !.awaiting = FALSE,
                             !.ended = Append(@, pp.pc)]
            ELSE [all EXCEPT !.pc = "pools", !.awaiting = FALSE,
                             !.ended = Append(@, pp.pc),
                             !.protocolsSuccess = TRUE]
  /\ UNCHANGED <<apart, db, cache, pp, poolPass, stablePass, chartPass,
                 coinPass>>

\* syncProtocols has returned or thrown, which is logged
ProtocolsSettled ==
  /\ all.pc = "protocols" /\ all.awaiting /\ ~Running(pp)
  /\ all' = [all EXCEPT !.pc = "pools", !.awaiting = FALSE,
                        !.ended = Append(@, pp.pc),
                        !.protocolsSuccess = pp.pc = "done"]
  /\ UNCHANGED <<apart, db, cache, pp, poolPass, stablePass, chartPass,
                 coinPass>>

\* syncPools has returned or thrown, which is logged
PoolsSettled ==
  /\ all.pc = "pools" /\ all.awaiting /\ ~Running(poolPass)
  /\ all' = [all EXCEPT !.pc = "stablecoins", !.awaiting = FALSE,
                        !.ended = Append(@, poolPass.pc),
                        !.poolsSuccess = poolPass.pc = "done"]
  /\ UNCHANGED <<apart, db, cache, pp, poolPass, stablePass, chartPass,
                 coinPass>>

\* syncStablecoins has returned or thrown, which is logged; the charts are
\* left out when syncPools has thrown
StablecoinsSettled ==
  /\ all.pc = "stablecoins" /\ all.awaiting /\ ~Running(stablePass)
  /\ LET a == [all EXCEPT !.awaiting = FALSE,
                          !.ended = Append(@, stablePass.pc),
                          !.stablecoinsSuccess = stablePass.pc = "done"]
     IN all' = IF a.poolsSuccess THEN [a EXCEPT !.pc = "findMany"]
               ELSE AllFinalCheck(a)
  /\ UNCHANGED <<apart, db, cache, pp, poolPass, stablePass, chartPass,
                 coinPass>>

\* the query for the pools whose chart is refreshed gives a list, or throws,
\* which is logged and leaves the list empty
SelectTopPools(ok) ==
  /\ all.pc = "findMany"
  /\ \E list \in IF ~ok THEN {<<>>}
                 ELSE IF all.job THEN HourlyPoolLists(db.pool)
                 ELSE TopPoolLists(db.pool) :
       all' = IF Len(list) = 0 THEN AfterCharts(all)
              ELSE [all EXCEPT !.pc = "charts", !.topPoolsToSync = list,
                               !.k = 1]
  /\ UNCHANGED <<apart, db, cache, pp, poolPass, stablePass, chartPass,
                 coinPass>>

\* syncPoolChart has returned: the next pool, or the end of the run
ChartSettled ==
  /\ all.pc = "charts" /\ all.awaiting /\ ~Running(chartPass)
  /\ LET a == [all EXCEPT
                 !.ended = Append(@, IF chartPass.pc = "done"
                                        /\ ChartFailed(chartPass)
                                     THEN "failed" ELSE chartPass.pc)]
     IN all' = IF chartPass.pc = "thrown" THEN ChartThrown(a)
               ELSE IF a.k = Len(a.topPoolsToSync) THEN AfterCharts(a)
               ELSE [a EXCEPT !.awaiting = FALSE, !.k = @ + 1]
  /\ UNCHANGED <<apart, db, cache, pp, poolPass, stablePass, chartPass,
                 coinPass>>

\* the state after the constructors, for a run with the clients and bounds e,
\* over the tables that earlier runs of the service have left
Constructed(e, store) ==
  /\ now = Epoch
  /\ client = [c \in Clients |-> NewClient]
  /\ call = <<>>
  /\ env = e
  /\ issued = <<0, 0>>
  /\ returned = NoReturn
  /\ sent = 0
  /\ starts = [c \in Clients |-> <<0, 0>>]
  /\ owed = [c \in Clients |-> 0]
  /\ bulk = NoFetch
  /\ db = store
  /\ cache = EmptyCache
  /\ pp = NoPass
  /\ poolPass = NoPoolPass
  /\ stablePass = NoStablePass
  /\ chartPass = NoChartPass
  /\ coinPass = NoCoinPass
  /\ probe = NoProbe
  /\ details = NoDetails

\* no run of syncAll is due
Deployed(e, store) == Constructed(e, store) /\ all = NoAll

\* the same over an empty store
Fresh(e) == Deployed(e, EmptyStore)

\* the store after a protocol pass over aave and lido, and that store after a
\* pool pass over p1
Stores ==
  LET aave == Protocol("1", "aave", "Ethereum", <<"Ethereum">>, 0, 10)
      lido == Protocol("2", "lido", "Solana", <<"Solana", "BSC">>, 0, 10)
      p1 == Pool("p1", "aave", "Ethereum", 5, <<"0xa">>)
      protocols == [EmptyStore EXCEPT
                      !.protocol = {CreateData(aave), CreateData(lido)}]
  IN {EmptyStore, protocols,
      [protocols EXCEPT !.pool = {PoolCreateData(p1)},
                        !.poolToken = {TokensOf(p1)[1]}]}

\* one client instance, used by its callers in any interleaving
Init ==
  Fresh([holders |-> {"sync"}, calls |-> MaxCalls, bursts |-> 0,
         requests |-> MaxRequests])

\* one client instance under sustained overload
InitOverload ==
  Fresh([holders |-> {"tool"}, calls |-> MaxCalls, bursts |-> MaxBursts,
         requests |-> MaxOverloadRequests])

\* the process: every holder of a client uses its own
InitProcess ==
  Fresh([holders |-> Clients, calls |-> MaxCalls, bursts |-> 0,
         requests |-> MaxProcessRequests])

Next ==
  \/ \E c \in env.holders : getCoinsList(c)
  \/ \E c \in env.holders : getCoinDetails(c)
  \/ \E c \in env.holders : getTrendingCoins(c)
  \/ \E i \in DOMAIN call : \E resp \in Responses : \E d \in Latencies : Respond(i, resp, d)
  \/ \E i \in DOMAIN call : RetryWake(i)
  \/ \E c \in Clients : QueueWake(c)

NextOverload ==
  \/ Next
  \/ \E c \in env.holders : DetailsBurst(c)

\* the bulk client alone
InitBulk ==
  Fresh([holders |-> {}, calls |-> 0, bursts |-> 0, requests |-> 0])

NextBulk ==
  \/ \E f \in Fetches : Fetch(f)
  \/ \E d \in FetchData : FetchReturns(d)
  \/ \E e \in FetchErrors : FetchThrows(e)
  \/ FetchRetry

\* the sync service alone
InitSync ==
  \E store \in Stores :
    Deployed([holders |-> {}, calls |-> 0, bursts |-> 0, requests |-> 0],
             store)

NextSync ==
  \/ syncProtocols
  \/ syncPools
  \/ \E ok \in BOOLEAN : LoadProtocolSlugs(ok)
  \/ \E ok \in BOOLEAN : LoadPoolIds(ok)
  \/ \E pools \in PoolPayloads : GetPoolsReturns(pools)
  \/ GetPoolsThrows
  \/ \E ok \in BOOLEAN : CreatePools(ok)
  \/ \E ok \in BOOLEAN : CreateTokenBatch(ok)
  \/ \E ok \in BOOLEAN : CreateTokenOne(ok)
  \/ \E ok \in BOOLEAN : UpdatePools(ok)
  \/ \E ok \in BOOLEAN : CachePools(ok)
  \/ \E protocols \in Payloads : GetProtocolsReturns(protocols)
  \/ GetProtocolsThrows
  \/ \E ok \in BOOLEAN : LoadExisting(ok)
  \/ \E ok \in BOOLEAN : CreateChunk(ok)
  \/ \E ok \in BOOLEAN : UpdateChunk(ok)
  \/ \E ok \in BOOLEAN : CacheProtocols(ok)

Spec == Init /\ [][Next]_vars
SpecSync == InitSync /\ [][NextSync]_vars

\* the stablecoin pass alone
InitStable ==
  Deployed([holders |-> {}, calls |-> 0, bursts |-> 0, requests |-> 0],
           EmptyStore)

NextStable ==
  \/ syncStablecoins
  \/ \E stablecoins \in StablePayloads : GetStablecoinsReturns(stablecoins)
  \/ GetStablecoinsThrows
  \/ \E ok \in BOOLEAN : UpsertChunk(ok)
  \/ \E ok \in BOOLEAN : CacheStablecoins(ok)

SpecStable == InitStable /\ [][NextStable]_vars

\* passes on payloads whose records have the ids of stored rows and other
\* values in every field
RenamedProtocols ==
  {Protocol("1", "aave-v3", "BSC", <<"BSC">>, 0, 30),
   Protocol("1", "aave", "Ethereum", <<"Ethereum">>, 0, 20),
   Protocol("2", "lido", "Ethereum", <<"Ethereum">>, 0, 10)}

RenamedPools ==
  {Pool("p1", "lido", "BSC", 9, <<"0xc">>),
   Pool("p1", "aave", "Ethereum", 7, <<"0xa">>),
   Pool("p4", "lido", "BSC", 0, <<"0xa">>)}

InitResync ==
  \E store \in Stores :
    Deployed([holders |-> {}, calls |-> 0, bursts |-> 0, requests |-> 0],
             store)

NextResync ==
  \/ syncProtocols
  \/ \E protocols \in SeqsUpTo(RenamedProtocols, MaxResyncPayload) :
       GetProtocolsReturns(protocols)
  \/ GetProtocolsThrows
  \/ \E ok \in BOOLEAN : LoadExisting(ok)
  \/ \E ok \in BOOLEAN : CreateChunk(ok)
  \/ \E ok \in BOOLEAN : UpdateChunk(ok)
  \/ \E ok \in BOOLEAN : CacheProtocols(ok)
  \/ syncPools
  \/ \E ok \in BOOLEAN : LoadProtocolSlugs(ok)
  \/ \E ok \in BOOLEAN : LoadPoolIds(ok)
  \/ \E pools \in SeqsUpTo(RenamedPools, MaxResyncPayload) :
       GetPoolsReturns(pools)
  \/ GetPoolsThrows
  \/ \E ok \in BOOLEAN : CreatePools(ok)
  \/ \E ok \in BOOLEAN : CreateTokenBatch(ok)
  \/ \E ok \in BOOLEAN : CreateTokenOne(ok)
  \/ \E ok \in BOOLEAN : UpdatePools(ok)
  \/ \E ok \in BOOLEAN : CachePools(ok)

SpecResync == InitResync /\ [][NextResync]_vars

\* the steps in which an awaited call of a protocol pass or of a pool pass
\* returns or throws
ResyncSteps ==
  \/ \E protocols \in SeqsUpTo(RenamedProtocols, MaxResyncPayload) :
       GetProtocolsReturns(protocols)
  \/ GetProtocolsThrows
  \/ \E ok \in BOOLEAN : LoadExisting(ok)
  \/ \E ok \in BOOLEAN : CreateChunk(ok)
  \/ \E ok \in BOOLEAN : UpdateChunk(ok)
  \/ \E ok \in BOOLEAN : CacheProtocols(ok)
  \/ \E ok \in BOOLEAN : LoadProtocolSlugs(ok)
  \/ \E ok \in BOOLEAN : LoadPoolIds(ok)
  \/ \E pools \in SeqsUpTo(RenamedPools, MaxResyncPayload) :
       GetPoolsReturns(pools)
  \/ GetPoolsThrows
  \/ \E ok \in BOOLEAN : CreatePools(ok)
  \/ \E ok \in BOOLEAN : CreateTokenBatch(ok)
  \/ \E ok \in BOOLEAN : CreateTokenOne(ok)
  \/ \E ok \in BOOLEAN : UpdatePools(ok)
  \/ \E ok \in BOOLEAN : CachePools(ok)

\* two runs of syncPools at once, say the scheduled one and one a route
\* asked for: both may read the ids of the stored pools before either writes.
\* The payloads name p1 on two chains with one token address in common
OverlapPools ==
  {Pool("p1", "lido", "BSC", 9, <<"0xc">>),
   Pool("p1", "aave", "Ethereum", 7, <<"0xc", "0xa">>)}

InitOverlap ==
  \E store \in Stores :
    Deployed([holders |-> {}, calls |-> 0, bursts |-> 0, requests |-> 0],
             store)

NextOverlap ==
  \/ syncPools
  \/ syncPoolsOverlapping
  \/ OtherPassGoesOn
  \/ \E ok \in BOOLEAN : LoadProtocolSlugs(ok)
  \/ \E ok \in BOOLEAN : LoadPoolIds(ok)
  \/ \E pools \in SeqsUpTo(OverlapPools, MaxOverlapPayload) :
       GetPoolsReturns(pools)
  \/ GetPoolsThrows
  \/ \E ok \in BOOLEAN : CreatePools(ok)
  \/ \E ok \in BOOLEAN : CreateTokenBatch(ok)
  \/ \E ok \in BOOLEAN : CreateTokenOne(ok)
  \/ \E ok \in BOOLEAN : UpdatePools(ok)
  \/ \E ok \in BOOLEAN : CachePools(ok)

SpecOverlap == InitOverlap /\ [][NextOverlap]_vars

\* the passes when every call they await returns or throws
SpecResyncFair == SpecResync /\ WF_vars(ResyncSteps)

\* payloads with a record that lacks a field or has one of another type: a
\* protocol whose chain list has a number, a pool without chain
MalformedProtocols ==
  {Protocol("1", "aave", "Ethereum", <<"Ethereum">>, 0, 20),
   Protocol("5", "curve", "Ethereum", <<"Ethereum">>, 0, 10),
   Protocol("6", "odd", "Solana", <<NumberEntry, "Ethereum">>, 0, 10)}

MalformedPools ==
  {Pool("p1", "aave", "Ethereum", 7, <<"0xa">>),
   Pool("p5", "aave", "Ethereum", 5, <<"0xa">>),
   Pool("p6", "aave", Undefined, 5, <<>>)}

InitMalformed ==
  \E store \in Stores :
    Deployed([holders |-> {}, calls |-> 0, bursts |-> 0, requests |-> 0],
             store)

NextMalformed ==
  \/ syncProtocols
  \/ \E protocols \in SeqsUpTo(MalformedProtocols, MaxMalformedPayload) :
       GetProtocolsReturns(protocols)
  \/ GetProtocolsThrows
  \/ \E ok \in BOOLEAN : LoadExisting(ok)
  \/ \E ok \in BOOLEAN : CreateChunk(ok)
  \/ \E ok \in BOOLEAN : UpdateChunk(ok)
  \/ \E ok \in BOOLEAN : CacheProtocols(ok)
  \/ syncPools
  \/ \E ok \in BOOLEAN : LoadProtocolSlugs(ok)
  \/ \E ok \in BOOLEAN : LoadPoolIds(ok)
  \/ \E pools \in SeqsUpTo(MalformedPools, MaxMalformedPayload) :
       GetPoolsReturns(pools)
  \/ GetPoolsThrows
  \/ \E ok \in BOOLEAN : CreatePools(ok)
  \/ \E ok \in BOOLEAN : CreateTokenBatch(ok)
  \/ \E ok \in BOOLEAN : CreateTokenOne(ok)
  \/ \E ok \in BOOLEAN : UpdatePools(ok)
  \/ \E ok \in BOOLEAN : CachePools(ok)

SpecMalformed == InitMalformed /\ [][NextMalformed]_vars

\* one run of syncAll, on short payloads
InitAll ==
  /\ \E store \in Stores :
       Constructed([holders |-> {}, calls |-> 0, bursts |-> 0,
                    requests |-> 0], store)
  /\ all = [NoAll EXCEPT !.pc = "due"]

NextAll ==
  \/ syncAll
  \/ syncProtocols
  \/ \E protocols \in SeqsUpTo(UpstreamProtocols, MaxAllPayload) :
       GetProtocolsReturns(protocols)
  \/ GetProtocolsThrows
  \/ \E ok \in BOOLEAN : LoadExisting(ok)
  \/ \E ok \in BOOLEAN : CreateChunk(ok)
  \/ \E ok \in BOOLEAN : UpdateChunk(ok)
  \/ \E ok \in BOOLEAN : CacheProtocols(ok)
  \/ ProtocolsSettled
  \/ syncPools
  \/ \E ok \in BOOLEAN : LoadProtocolSlugs(ok)
  \/ \E ok \in BOOLEAN : LoadPoolIds(ok)
  \/ \E pools \in SeqsUpTo(UpstreamPools, MaxAllPayload) :
       GetPoolsReturns(pools)
  \/ GetPoolsThrows
  \/ \E ok \in BOOLEAN : CreatePools(ok)
  \/ \E ok \in BOOLEAN : CreateTokenBatch(ok)
  \/ \E ok \in BOOLEAN : CreateTokenOne(ok)
  \/ \E ok \in BOOLEAN : UpdatePools(ok)
  \/ \E ok \in BOOLEAN : CachePools(ok)
  \/ PoolsSettled
  \/ syncStablecoins
  \/ \E stablecoins \in SeqsUpTo(UpstreamStablecoins, MaxAllPayload) :
       GetStablecoinsReturns(stablecoins)
  \/ GetStablecoinsThrows
  \/ \E ok \in BOOLEAN : UpsertChunk(ok)
  \/ \E ok \in BOOLEAN : CacheStablecoins(ok)
  \/ StablecoinsSettled
  \/ \E ok \in BOOLEAN : SelectTopPools(ok)
  \/ \E poolId \in ChartPools : syncPoolChart(poolId)
  \/ \E chartData \in SeqsUpTo(UpstreamPoints, MaxAllPayload) :
       GetPoolChartReturns(chartData)
  \/ GetPoolChartThrows
  \/ \E ok \in BOOLEAN : DeleteOldCharts(ok)
  \/ \E ok \in BOOLEAN : CreateChartChunk(ok)
  \/ \E ok \in BOOLEAN : CacheChart(ok)
  \/ ChartSettled

SpecAll == InitAll /\ [][NextAll]_vars

\* a store with two pools that both queries for the chart refreshes select
TopStore ==
  LET aave == Protocol("1", "aave", "Ethereum", <<"Ethereum">>, 0, 10)
  IN [EmptyStore EXCEPT
        !.protocol = {CreateData(aave)},
        !.pool = {PoolCreateData(Pool("p1", "aave", "Ethereum", 12, <<>>)),
                  PoolCreateData(Pool("p3", "aave", "Ethereum", 11, <<>>))}]

\* one run of syncAll or of the hourly job of the charts
InitChartRuns ==
  /\ \E store \in Stores \cup {TopStore} :
       Constructed([holders |-> {}, calls |-> 0, bursts |-> 0,
                    requests |-> 0], store)
  /\ all = [NoAll EXCEPT !.pc = "due"]

NextChartRuns ==
  \/ NextAll
  \/ hourlyChartJob

SpecChartRuns == InitChartRuns /\ [][NextChartRuns]_vars

\* the coin list pass alone
InitCoins ==
  Deployed([holders |-> {}, calls |-> 0, bursts |-> 0, requests |-> 0],
           EmptyStore)

NextCoins ==
  \/ syncCoinsListAndPlatforms
  \/ \E coinsList \in CoinLists : GetCoinsListReturns(coinsList)
  \/ \E ok \in BOOLEAN : \E sets \in SetOutcomes : CoinTransaction(ok, sets)
  \/ \E ok \in BOOLEAN : CoinPromiseAll(ok)

SpecCoins == InitCoins /\ [][NextCoins]_vars

\* the calls for the details of a coin, over a store that has the coin in
\* its index or has not
InitDetails ==
  \E coins \in SUBSET {DetailsCoin} :
    Deployed([holders |-> {}, calls |-> 0, bursts |-> 0, requests |-> 0],
             [EmptyStore EXCEPT
                !.cgCoinsIndex = {[id |-> c.id, symbol |-> c.symbol,
                                   name |-> c.name] : c \in coins}])

NextDetails ==
  \/ getCoinDetailsAndStore
  \/ \E ok \in BOOLEAN : FindCoin(ok)
  \/ \E outcome \in {"found", "absent", "thrown"} : DetailsCoinsList(outcome)
  \/ \E ok \in BOOLEAN : CreateCoin(ok)
  \/ \E ok \in BOOLEAN : GetDetailsCache(ok)
  \/ \E ok \in BOOLEAN : FindDetails(ok)
  \/ \E data \in ApiDetails : DetailsApiReturns(data)
  \/ DetailsApiFails
  \/ \E ok \in BOOLEAN : UpsertDetails(ok)
  \/ \E ok \in BOOLEAN : SetDetailsCache(ok)
  \/ \E hours \in ElapseHours : DetailsElapse(hours)

SpecDetails == InitDetails /\ [][NextDetails]_vars

\* the chart refresh alone, over a store that has pools
InitChart ==
  \E store \in Stores :
    /\ store.pool # {}
    /\ Deployed([holders |-> {}, calls |-> 0, bursts |-> 0, requests |-> 0],
                store)

NextChart ==
  \/ \E poolId \in ChartPools : syncPoolChart(poolId)
  \/ \E chartData \in Series : GetPoolChartReturns(chartData)
  \/ GetPoolChartThrows
  \/ \E ok \in BOOLEAN : DeleteOldCharts(ok)
  \/ \E ok \in BOOLEAN : CreateChartChunk(ok)
  \/ \E ok \in BOOLEAN : CacheChart(ok)
  \/ \E days \in ElapseDays : Elapse(days)

SpecChart == InitChart /\ [][NextChart]_vars

(***************************************************************************)
(* DeFiLlamaSyncService.isEVMCompatible on its own: a record is put to the *)
(* filter, then its letters or its other fields are changed and it is put  *)
(* to the filter again.                                                    *)
(***************************************************************************)
\* the spellings of the chain names a record may carry; "" is an absent name
ChainNames ==
  {"", "ethereum", "Ethereum", "ETHEREUM", "bsc", "BSC", "Bsc", "solana",
   "Solana", "SOLANA", "multi-chain", "Multi-Chain", "MULTI-CHAIN",
   "zksync era", "zkSync Era", "bitcoin", "Bitcoin"}

\* the names a chains list is made of
ListNames == {"Ethereum", "ethereum", "BSC", "Solana", "SOLANA", "Multi-Chain"}

\* the records put to the filter
FilterInputs ==
  {Protocol(id, id, chain, chains, deadFrom, 10) :
     id \in {"1", "2"}, chain \in ChainNames,
     chains \in SeqsUpTo(ListNames, MaxChains), deadFrom \in {0, 1650000000}}

\* the filter is applied to a record
Apply(protocol) ==
  /\ ~probe.applied
  /\ probe' = [protocol |-> protocol, applied |-> TRUE,
               verdict |-> isEVMCompatible(protocol), varied |-> FALSE,
               was |-> FALSE]
  /\ UNCHANGED <<now, cgVars, bulk, syncVars, details>>

\* the same record with its chain names spelt in other letter cases and its
\* other fields changed, put to the filter again
Vary(protocol) ==
  /\ probe.applied
  /\ toLowerCase(protocol.chain) = toLowerCase(probe.protocol.chain)
  /\ Len(protocol.chains) = Len(probe.protocol.chains)
  /\ \A k \in DOMAIN protocol.chains :
       toLowerCase(protocol.chains[k]) = toLowerCase(probe.protocol.chains[k])
  /\ protocol # probe.protocol
  /\ probe' = [protocol |-> protocol, applied |-> TRUE,
               verdict |-> isEVMCompatible(protocol), varied |-> TRUE,
               was |-> probe.verdict]
  /\ UNCHANGED <<now, cgVars, bulk, syncVars, details>>

InitFilter ==
  Deployed([holders |-> {}, calls |-> 0, bursts |-> 0, requests |-> 0],
           EmptyStore)

NextFilter ==
  \/ \E protocol \in FilterInputs : Apply(protocol)
  \/ \E protocol \in FilterInputs : Vary(protocol)

SpecFilter == InitFilter /\ [][NextFilter]_vars
SpecBulk == InitBulk /\ [][NextBulk]_vars
SpecOverload == InitOverload /\ [][NextOverload]_vars
SpecProcess == InitProcess /\ [][Next]_vars

\* one client whose calls all get their answers: no call is short of
\* requests, every request is answered and every timer fires
InitLive ==
  Fresh([holders |-> {"sync"}, calls |-> MaxLiveCalls, bursts |-> 0,
         requests |-> MaxLiveCalls * MAX_RETRIES])

\* the answers of the provider in these runs: success, a 429 that asks for
\* no delay beyond the margin, a reset connection and a server error
LiveResponses ==
  {resp \in Responses :
     /\ resp.status = 200 => resp.valid
     /\ resp.status = 429 => resp.retryAfter = 0}

NextLive ==
  \/ getCoinDetails("sync")
  \/ \E i \in DOMAIN call : \E resp \in LiveResponses : \E d \in Latencies :
       Respond(i, resp, d)
  \/ \E i \in DOMAIN call : RetryWake(i)
  \/ QueueWake("sync")

SpecLive ==
  /\ InitLive
  /\ [][NextLive]_vars
  /\ \A i \in 1 .. MaxLiveCalls :
       /\ WF_vars(\E resp \in LiveResponses : \E d \in Latencies :
                    i \in DOMAIN call /\ Respond(i, resp, d))
       /\ WF_vars(i \in DOMAIN call /\ RetryWake(i))
  /\ WF_vars(QueueWake("sync"))

(***************************************************************************)
(* Rate-limited client: the claims.                                        *)
(***************************************************************************)
\* the calls whose upstream request is in flight
InFlight == {i \in DOMAIN call : call[i].pc = "request"}

\* C1: at any time at most one request toward the rate-limited provider is
\* in flight in the whole process, whichever holder of a client issued it.
OneRequestInFlight == Cardinality(InFlight) <= 1

\* C2: for one client instance the queue worker executes at most one queued
\* call at a time: no call starts while a dequeued call has not finished.
OneCallAtATime == \A c \in Clients : Cardinality(Executing(c)) <= 1

\* C2, witness: a call is executing while a concurrently enqueued call waits.
OneCallAtATimeWitness ==
  \E c \in Clients : Cardinality(Executing(c)) = 1 /\ client[c].requestQueue # <<>>

\* C3: the start times of every two consecutive calls of a client are at
\* least MIN_REQUEST_INTERVAL_MS apart, whatever the outcome of the calls.
MinSpacing ==
  \A c \in Clients :
    starts[c][1] > 0 => starts[c][2] - starts[c][1] >= MIN_REQUEST_INTERVAL_MS

\* C3, witness: a call failed by rate limiting and the next call has started.
MinSpacingWitness ==
  \E c \in Clients :
    /\ starts[c][1] > 0
    /\ returned.last = 429
    /\ Executing(c) # {}

\* C4: after a 429 response carrying retry-after R at time t, the next call
\* dispatched by the client starts no earlier than t + R s + 3 s.
BackoffDelaysNextCall ==
  \A i \in DOMAIN call :
    call[i].pc = "request" /\ call[i].attempt = 1 => now >= owed[call[i].client]

\* C5: with MAX_QUEUE_SIZE calls pending the next enqueue fails at once with
\* the queue-full error, the queue is unchanged, and a rejected call is never
\* added to the queue and never executed.
QueueFullFailsFast ==
  [][/\ \A c \in Clients :
          LET new == {j \in DOMAIN call' \ DOMAIN call : call'[j].client = c}
          IN Len(client[c].requestQueue) >= MAX_QUEUE_SIZE /\ new # {} =>
               /\ \A j \in new : call'[j].pc = "rejected"
               /\ client'[c].requestQueue = client[c].requestQueue
               /\ returned'.id \in new
               /\ returned'.result = "QueueFullError"
     /\ \A i \in DOMAIN call' :
          call'[i].pc = "rejected" =>
            /\ call'[i].attempt = 0
            /\ \A c \in Clients :
                 \A n \in DOMAIN client'[c].requestQueue : client'[c].requestQueue[n] # i
            /\ i \in DOMAIN call => call[i].pc = "rejected"
     /\ \A i \in DOMAIN call : call[i].pc = "rejected" => call'[i] = call[i]]_vars

\* C5, witness: a call was rejected while MAX_QUEUE_SIZE calls are pending.
QueueFullWitness ==
  \E i \in DOMAIN call :
    /\ call[i].pc = "rejected"
    /\ returned.id = i
    /\ Len(client[call[i].client].requestQueue) = MAX_QUEUE_SIZE

\* C6: an upstream error that is neither a 429 nor a connection reset is not
\* retried (no further attempt follows it) and propagates to the caller.
OtherErrorsPropagate ==
  /\ \A i \in DOMAIN call : call[i].otherAt = 0
  /\ returned.otherAt > 0 =>
       returned.attempts = returned.otherAt /\ returned.result = "error"

\* C7: every accepted call makes at most MAX_RETRIES upstream attempts and
\* then returns; attempts exhausted by rate-limit or connection-reset
\* failures give the neutral result (empty list or null), never an error.
BoundedAttempts ==
  /\ \A i \in DOMAIN call :
       /\ call[i].attempt <= MAX_RETRIES
       /\ call[i].pc = "retryDelay" => call[i].attempt < MAX_RETRIES
  /\ returned.attempts <= MAX_RETRIES
  /\ returned.last \in {429, 1} =>
       /\ returned.attempts = MAX_RETRIES
       /\ returned.result = Neutral(returned.kind)

\* C7, witness: a call gave up after MAX_RETRIES attempts, the last one
\* refused by a 429, and returned the neutral result.
BoundedAttemptsWitness ==
  /\ returned.attempts = MAX_RETRIES
  /\ returned.last = 429
  /\ returned.result = Neutral(returned.kind)

(***************************************************************************)
(* Bulk client: the claims.                                                *)
(***************************************************************************)
RECURSIVE Pow2(_)
Pow2(k) == IF k = 0 THEN 1 ELSE 2 * Pow2(k - 1)

\* C8: a bulk fetch attempts the request; after the failure of attempt k
\* (k = 0, 1, ...) it waits 1000 * 2^k ms and retries, at most 3 times; it
\* returns the first successful result without a further attempt, and after
\* the last failed retry it throws that last error.
BulkRetry ==
  /\ Len(bulk.waited) <= 3
  /\ \A k \in DOMAIN bulk.waited : bulk.waited[k] = 1000 * Pow2(k - 1)
  /\ Len(bulk.tried) <= 4
  /\ bulk.pc = "attempt" => Len(bulk.waited) = Len(bulk.tried)
  /\ bulk.pc = "wait" => Len(bulk.waited) = Len(bulk.tried) - 1
  /\ bulk.pc = "returned" =>
       /\ bulk.result = bulk.tried[Len(bulk.tried)]
       /\ \A k \in 1 .. Len(bulk.tried) - 1 : bulk.tried[k] \in FetchErrors
       /\ Len(bulk.waited) = Len(bulk.tried) - 1
  /\ bulk.pc = "thrown" =>
       /\ Len(bulk.tried) = 4
       /\ Len(bulk.waited) = 3
       /\ \A k \in 1 .. 4 : bulk.tried[k] \in FetchErrors
       /\ bulk.error = bulk.tried[4]

\* C8, witness: a fetch threw after its third retry, and its last two
\* attempts failed with different errors.
BulkRetryWitness ==
  /\ bulk.pc = "thrown"
  /\ Len(bulk.waited) = 3
  /\ bulk.tried[3] # bulk.tried[4]

(***************************************************************************)
(* Reconciliation: the claims.                                             *)
(***************************************************************************)
RECURSIVE Flatten(_)
Flatten(seqs) ==
  IF Len(seqs) = 0 THEN <<>> ELSE Head(seqs) \o Flatten(Tail(seqs))

\* the records of all the chunks the pass sends to create, and to update
toCreate ==
  Flatten([k \in DOMAIN pp.protocolChunks |->
             NewProtocols(pp.protocolChunks[k], pp.existingProtocolIds)])
toUpdate ==
  Flatten([k \in DOMAIN pp.protocolChunks |->
             ExistingProtocols(pp.protocolChunks[k], pp.existingProtocolIds)])

Ids(ps) == {ps[k].id : k \in DOMAIN ps}

\* C9: once the pass has read the persisted ids, toCreate and toUpdate have
\* no identifier in common, a record is in toUpdate exactly when its
\* identifier is persisted, and toCreate with toUpdate is the deduplicated
\* input: one record of the input for each identifier of the input.
ReconcilePartition ==
  pp.loaded =>
    /\ Ids(toCreate) \cap Ids(toUpdate) = {}
    /\ \A k \in DOMAIN pp.evmProtocols :
         LET p == pp.evmProtocols[k]
         IN /\ (\E j \in DOMAIN toUpdate : toUpdate[j] = p)
                 <=> p.id \in pp.existingProtocolIds
            /\ (\E j \in DOMAIN toCreate : toCreate[j] = p)
                 <=> p.id \notin pp.existingProtocolIds
    /\ Ids(toCreate \o toUpdate) = Ids(pp.evmProtocols)
    /\ \A j \in DOMAIN (toCreate \o toUpdate) :
         \E k \in DOMAIN pp.evmProtocols :
           (toCreate \o toUpdate)[j] = pp.evmProtocols[k]
    /\ Len(toCreate) + Len(toUpdate) = Cardinality(Ids(pp.evmProtocols))

\* C10: at the end of a pass every identifier of the payload has been counted
\* at most once in created, updated and failed together, and no write has
\* failed unless the store itself failed a transaction.
DuplicateHandledOnce ==
  (pp.loaded /\ pp.pc \in {"done", "thrown"}) =>
    /\ pp.newCount + pp.updatedCount + pp.errorCount
         <= Cardinality(Ids(pp.evmProtocols))
    /\ pp.dbFailures = 0 => pp.errorCount = 0

PartialFailureCounted ==
  /\ (pp.loaded /\ pp.pc \in {"cache", "done", "thrown"}) =>
       /\ pp.i = Len(pp.protocolChunks) + 1
       /\ pp.newCount + pp.updatedCount + pp.errorCount = Len(pp.evmProtocols)
       /\ pp.successCount = pp.newCount + pp.updatedCount
       /\ pp.newCount = Cardinality(db.protocol) - pp.rowsBefore
       /\ pp.pc = "thrown" => pp.successCount = 0
  /\ (poolPass.fetched /\ poolPass.pc \in {"cache", "done", "thrown"}) =>
       /\ poolPass.i = Len(poolPass.poolChunks) + 1
       /\ poolPass.newCount + poolPass.updatedCount + poolPass.errorCount
            = Len(poolPass.evmPools)
       /\ poolPass.successCount = poolPass.newCount + poolPass.updatedCount
       /\ poolPass.pc = "thrown" => poolPass.successCount = 0

\* C12, witness: a protocol pass of two chunks has returned normally after the
\* store failed the write of the first chunk and took that of the second.
PartialFailureWitness ==
  /\ pp.pc = "done"
  /\ Len(pp.protocolChunks) = 2
  /\ pp.dbFailures = 1
  /\ pp.errorCount = BATCH_SIZE
  /\ pp.newCount = 1

\* the number of records of a payload that satisfy Class
Count(records, Class(_)) ==
  Cardinality({k \in DOMAIN records : Class(records[k])})

\* C13: once a protocol pass or a pool pass has filtered its payload, each
\* fetched record is in exactly one class: inactive, incompatible (no
\* supported chain, or for a pool no persisted protocol) or accepted; the
\* counters of the pass are the sizes of the classes and sum to the number of
\* records fetched.
FilterCounts ==
  /\ pp.protocolsFromApi > 0 =>
       LET Inactive(r) == r.deadFrom # 0
           Incompatible(r) == ~Inactive(r) /\ ~isEVMCompatible(r)
           Accepted(r) == ~Inactive(r) /\ isEVMCompatible(r)
       IN /\ pp.skippedInactiveCount = Count(pp.protocols, Inactive)
          /\ pp.skippedNonEVMCount = Count(pp.protocols, Incompatible)
          /\ Len(pp.evmProtocols) = Count(pp.protocols, Accepted)
          /\ pp.skippedInactiveCount + pp.skippedNonEVMCount
               + Len(pp.evmProtocols) = pp.protocolsFromApi
          /\ pp.protocolsFromApi = Len(pp.protocols)
  /\ poolPass.fetched =>
       LET NoProtocol(r) == r.project \notin poolPass.validProtocolSlugs
           NoChain(r) ==
             ~NoProtocol(r) /\ toLowerCase(r.chain) \notin EVM_CHAINS
           Accepted(r) ==
             ~NoProtocol(r) /\ toLowerCase(r.chain) \in EVM_CHAINS
       IN /\ poolPass.skippedCount = Count(poolPass.pools, NoProtocol)
          /\ poolPass.skippedNonEVMCount = Count(poolPass.pools, NoChain)
          /\ Len(poolPass.evmPools) = Count(poolPass.pools, Accepted)
          /\ poolPass.skippedCount + poolPass.skippedNonEVMCount
               + Len(poolPass.evmPools) = poolPass.poolsFromApi
          /\ poolPass.poolsFromApi = Len(poolPass.pools)

\* C13, witness: a protocol pass has filtered a payload that holds a record of
\* each class.
FilterCountsWitness ==
  /\ pp.pc = "findMany"
  /\ pp.skippedInactiveCount = 1
  /\ pp.skippedNonEVMCount = 1
  /\ Len(pp.evmProtocols) = 1

\* a record with no supported chain, by the allow-list itself
Unsupported(r) ==
  /\ toLowerCase(r.chain) \notin EVM_CHAINS
  /\ \A k \in DOMAIN r.chains : toLowerCase(r.chains[k]) \notin EVM_CHAINS

\* C14: in a protocol pass a record with the ceased-activity marker, and an
\* active record with no supported chain, is sent neither to create nor to
\* update and is counted as skipped-inactive, respectively skipped-
\* incompatible; no protocol row is without a supported chain; and a pass over
\* new records of distinct ids on a healthy store creates the others.
SkippedProtocolsNotWritten ==
  /\ \A row \in db.protocol :
       \/ row.chain \in EVM_CHAINS
       \/ \E k \in DOMAIN row.chains : row.chains[k] \in EVM_CHAINS
  /\ pp.loaded =>
       LET Inactive(r) == r.deadFrom # 0
           Incompatible(r) == r.deadFrom = 0 /\ Unsupported(r)
           Skipped(r) == Inactive(r) \/ Incompatible(r)
           written == toCreate \o toUpdate
       IN /\ \A k \in DOMAIN written : ~Skipped(written[k])
          /\ pp.skippedInactiveCount = Count(pp.protocols, Inactive)
          /\ pp.skippedNonEVMCount = Count(pp.protocols, Incompatible)
          /\ (/\ pp.pc = "done"
              /\ pp.dbFailures = 0
              /\ Len(toUpdate) = 0
              /\ Cardinality(Ids(pp.protocols)) = Len(pp.protocols)) =>
               pp.newCount = Len(pp.protocols) - Count(pp.protocols, Skipped)

\* C14, witness: a pass over three new protocols, the second inactive and the
\* third on an unsupported chain, has ended with created = 1,
\* skippedInactive = 1 and skippedIncompatible = 1.
SkippedProtocolsWitness ==
  /\ pp.pc = "done"
  /\ Len(pp.protocols) = 3
  /\ pp.protocols[2].deadFrom # 0
  /\ Unsupported(pp.protocols[3])
  /\ pp.newCount = 1
  /\ pp.skippedInactiveCount = 1
  /\ pp.skippedNonEVMCount = 1

\* C15: every Pool row names the slug of a Protocol row and has a supported
\* chain; a fetched pool whose project is not among the slugs read at the
\* start of the pass is not reconciled, is counted as skipped, and no write
\* of the pass breaks the foreign key.
PoolsReferenceProtocols ==
  /\ \A row \in db.pool :
       /\ \E protocol \in db.protocol : protocol.slug = row.project
       /\ row.chain \in EVM_CHAINS
  /\ poolPass.fkErrors = 0
  /\ poolPass.fetched =>
       LET NoProtocol(r) == r.project \notin poolPass.validProtocolSlugs
       IN /\ \A k \in DOMAIN poolPass.evmPools :
               ~NoProtocol(poolPass.evmPools[k])
          /\ poolPass.skippedCount = Count(poolPass.pools, NoProtocol)

\* C15, witness: a pool pass has ended after it skipped a pool of an unknown
\* protocol and created another pool.
PoolsReferenceWitness ==
  /\ poolPass.pc = "done"
  /\ poolPass.skippedCount = 1
  /\ poolPass.newCount = 1
  /\ \E row \in db.pool : row.id \notin poolPass.existingPoolIds

\* C16: the chain filter accepts a record exactly when its primary chain or
\* an entry of its chain list is, letter case apart, a name of the allow-list;
\* a record that differs from another only in letter case and in its other
\* fields gets the same verdict; a record that carries the multi-chain mark is
\* accepted.
CaseClasses ==
  {{"ethereum", "Ethereum", "ETHEREUM"}, {"bsc", "BSC", "Bsc"},
   {"solana", "Solana", "SOLANA"}, {"bitcoin", "Bitcoin"},
   {"multi-chain", "Multi-Chain", "MULTI-CHAIN"},
   {"zksync era", "zkSync Era"}}

SameIgnoringCase(a, b) == a = b \/ \E class \in CaseClasses : {a, b} \subseteq class

Allowed(name) == \E entry \in EVM_CHAINS : SameIgnoringCase(name, entry)

Names(protocol) ==
  {protocol.chain} \cup {protocol.chains[k] : k \in DOMAIN protocol.chains}

ChainFilterIgnoresCase ==
  probe.applied =>
    /\ probe.verdict <=> \E name \in Names(probe.protocol) : Allowed(name)
    /\ probe.varied => (probe.verdict <=> probe.was)
    /\ (\E name \in Names(probe.protocol) :
          SameIgnoringCase(name, "multi-chain")) => probe.verdict

\* a record accepted for a name of its chain list that is spelt in capitals,
\* after the spelling of its primary chain has been changed
ChainFilterWitness ==
  /\ probe.applied /\ probe.varied /\ probe.verdict
  /\ ~Allowed(probe.protocol.chain)
  /\ probe.protocol.chain = "SOLANA"
  /\ \E k \in DOMAIN probe.protocol.chains : probe.protocol.chains[k] = "BSC"

\* C17: when a call of syncPoolChart is over, whatever the provider returned,
\* no chart point of that pool in the store is older than seven days.
ChartRetention ==
  chartPass.pc = "done" =>
    \A row \in db.poolChart :
      row.poolId = chartPass.poolId =>
        row.timestamp >= now - RETENTION_DAYS * DAY_MS

\* C18: a refresh that gets the series of the refresh before it, which wrote
\* all its points, leaves the stored points as they were.
ChartRefreshIdempotent ==
  chartPass.pc = "done" /\ chartPass.repeat =>
    db.poolChart = chartPass.rowsBefore

\* C19: in syncProtocols, syncPools, syncStablecoins and syncPoolChart a step
\* writes the cache only when the loop over the store writes of the run is
\* over and at least one of these writes has succeeded.
WritesCacheInOrder(pass, after) ==
  after.cacheWrites > pass.cacheWrites =>
    pass.pc = "cache" /\ pass.successCount > 0

CacheAfterStoreWrites ==
  [][/\ WritesCacheInOrder(pp, pp')
     /\ WritesCacheInOrder(poolPass, poolPass')
     /\ WritesCacheInOrder(stablePass, stablePass')
     /\ WritesCacheInOrder(chartPass, chartPass')]_vars

\* C20: a cache write that fails does not change how a pass ends nor what is
\* in the store: the step that writes the cache leaves the store as it is
\* and goes where it goes when the write succeeds, and no pass ends for a
\* cache write that failed.
CacheFailureSwallowed ==
  [][/\ pp.pc = "cache" => db' = db /\ pp'.pc = FinalCheck(pp).pc
     /\ poolPass.pc = "cache" =>
          db' = db /\ poolPass'.pc = PoolFinalCheck(poolPass).pc
     /\ stablePass.pc = "cache" =>
          db' = db /\ stablePass'.pc = StableFinalCheck(stablePass).pc
     /\ chartPass.pc = "cache" => db' = db /\ chartPass'.pc = "done"
     /\ coinPass.pc = "redis" =>
          /\ db' = db
          /\ coinPass'.pc = CoinNextAwait([coinPass EXCEPT !.i = @ + 1]).pc
     /\ coinPass'.pc # "crashed"]_vars

\* C21: syncAll calls syncProtocols, syncPools and syncStablecoins in this
\* order, each when the one before it has returned or thrown, and a run that
\* is over has called the three of them, whichever of them threw.
SyncAllOrder ==
  LET order == <<"protocols", "pools", "stablecoins">>
  IN /\ \A n \in DOMAIN all.ran :
          all.ran[n] = IF n <= 3 THEN order[n] ELSE "charts"
     /\ Running(pp) => all.ran = <<"protocols">>
     /\ Running(poolPass) =>
          ~Running(pp) /\ all.ran = <<"protocols", "pools">>
     /\ Running(stablePass) =>
          ~Running(pp) /\ ~Running(poolPass) /\ all.ran = order
     /\ all.pc \in {"done", "thrown"} => Len(all.ran) >= 3

\* C21, witness: a run of syncAll is over in which syncProtocols and
\* syncPools threw and syncStablecoins returned.
SyncAllOrderWitness ==
  /\ all.pc = "done"
  /\ ~all.protocolsSuccess /\ ~all.poolsSuccess /\ all.stablecoinsSuccess
  /\ all.ran = <<"protocols", "pools", "stablecoins">>

\* C22: no step changes the slug, the chain or the chain list of a Protocol
\* row, nor the chain or the project of a Pool row, whatever the payload of
\* the pass holds under the id of the row.
StructureKept ==
  [][/\ \A row \in db.protocol :
          \E after \in db'.protocol :
            /\ after.id = row.id /\ after.slug = row.slug
            /\ after.chain = row.chain /\ after.chains = row.chains
     /\ \A row \in db.pool :
          \E after \in db'.pool :
            /\ after.id = row.id /\ after.chain = row.chain
            /\ after.project = row.project]_vars

\* C22, witness: the rows of protocol 1 and of pool p1 have the metrics of
\* payload records that carried another slug, chain and project.
StructureKeptWitness ==
  /\ \E row \in db.protocol :
       row.id = "1" /\ row.slug = "aave" /\ row.tvl = 30
  /\ \E row \in db.pool :
       row.id = "p1" /\ row.project = "aave" /\ row.apy = 9

\* C23: a pass that is over throws when it has attempted records and all of
\* them failed, and returns when one of them succeeded; so for syncProtocols,
\* syncPools, syncStablecoins and syncCoinsListAndPlatforms.
RaisesAsCounted(pc, successes, failures) ==
  pc \in {"done", "thrown"} =>
    /\ failures > 0 /\ successes = 0 => pc = "thrown"
    /\ successes > 0 => pc = "done"

ThrowsWhenAllFailed ==
  /\ RaisesAsCounted(pp.pc, pp.successCount, pp.errorCount)
  /\ RaisesAsCounted(poolPass.pc, poolPass.successCount, poolPass.errorCount)
  /\ RaisesAsCounted(stablePass.pc, stablePass.successCount,
                     stablePass.errorCount)
  /\ RaisesAsCounted(coinPass.pc, coinPass.committed, coinPass.failed)

\* C24: the queue worker of a client that sleeps before its next call wakes at
\* the later of backoffTime and lastRequestTime + MIN_REQUEST_INTERVAL_MS, that
\* is, it sleeps max(0, backoffTime - now, MIN_REQUEST_INTERVAL_MS - (now -
\* lastRequestTime)), also when the pending backoff ends before the interval.
WaitsTheLongerDelay ==
  \A c \in Clients :
    \A w \in client[c].sleeping :
      w = Max(client[c].backoffTime,
              client[c].lastRequestTime + MIN_REQUEST_INTERVAL_MS)

\* attempts the call i of the calls cs has made on the upstream
AttemptsOf(cs, i) == IF i \in DOMAIN cs THEN cs[i].attempt ELSE 0

\* C25: no request is sent by a client before its backoffTime: a step in which
\* a call makes a further attempt, the first of a dequeued call or a retry of
\* the retry loop, happens at or after the backoffTime of the client.
NoRequestBeforeBackoffEnds ==
  [][\A i \in DOMAIN call' :
       AttemptsOf(call', i) > AttemptsOf(call, i) =>
         now' >= client'[call'[i].client].backoffTime]_vars

\* C26: the step in which a call executed by the queue worker returns, with a
\* result or after a failure, sets lastRequestTime of its client to the time
\* of the return, and no queued call of that client starts in that step: the
\* next call is considered with the new lastRequestTime.
CompletionSetsLastRequestTime ==
  [][\A i \in DOMAIN call :
       i \in Executing(call[i].client) /\ call'[i].pc = "settled" =>
         /\ client'[call[i].client].lastRequestTime = now'
         /\ \A j \in DOMAIN call :
              call[j].client = call[i].client /\ call[j].pc = "queued" =>
                call'[j].pc = "queued"]_vars

\* C26, witness: a call has returned after a failed last attempt, its client
\* has the time of the return as lastRequestTime and the next call is waiting.
CompletionSetsLastRequestTimeWitness ==
  \E c \in Clients :
    /\ returned.id \in DOMAIN call
    /\ call[returned.id].pc = "settled"
    /\ call[returned.id].client = c
    /\ returned.last # 200
    /\ client[c].lastRequestTime = now
    /\ now > Epoch
    /\ client[c].requestQueue # <<>>

\* the update transactions in ops are issued after the create transactions
\* that are in the set of pairs Together
CreatesFirst(ops, Together(_, _)) ==
  \A m, n \in DOMAIN ops :
    m < n /\ Together(ops[m], ops[n]) =>
      ~(ops[m].op = "update" /\ ops[n].op = "create")

TokensOnlyWithNewPools ==
  [][/\ db.poolToken \subseteq db'.poolToken
     /\ \A row \in db'.poolToken \ db.poolToken :
          /\ poolPass.pc \in {"tokens", "tokenOne"}
          /\ row.poolId \notin poolPass.existingPoolIds
          /\ LET newPools == NewPools(poolPass.poolChunks[poolPass.i],
                                      poolPass.existingPoolIds)
             IN \E k \in DOMAIN newPools : newPools[k].pool = row.poolId]_vars

\* C28, witness: a pool pass has updated pool p1, whose record names the
\* token 0xc, and the only PoolToken row of p1 is still the one of 0xa.
TokensOnlyWithNewPoolsWitness ==
  /\ poolPass.pc = "done"
  /\ poolPass.updatedCount > 0
  /\ \E k \in DOMAIN poolPass.pools :
       /\ poolPass.pools[k].pool = "p1"
       /\ poolPass.pools[k].underlyingTokens = <<"0xc">>
  /\ {row \in db.poolToken : row.poolId = "p1"}
       = {[poolId |-> "p1", tokenAddress |-> "0xa", chain |-> "ethereum"]}

\* an entry of underlyingTokens that is a string, not empty and not blank
ValidEntry(tokenAddress) == tokenAddress \notin {"", " ", NumberEntry}

\* C29: no PoolToken row has an invalid address; and when the loop of a pool
\* pass is over and no transaction of the pass failed in the store, no record
\* is counted as failed, every new pool is counted as created and is stored,
\* whatever entries its token list has, and, the token writes having
\* succeeded, every valid entry of a new pool has its row.
InvalidTokenSkipped ==
  /\ \A row \in db.poolToken : ValidEntry(row.tokenAddress)
  /\ /\ poolPass.pc \in {"cache", "done", "thrown"}
     /\ poolPass.dbFailures = 0
     /\ poolPass.fkErrors = 0
     => LET newPools == NewPools(poolPass.evmPools, poolPass.existingPoolIds)
        IN /\ poolPass.errorCount = 0
           /\ poolPass.newCount = Len(newPools)
           /\ \A k \in DOMAIN newPools :
                /\ \E row \in db.pool : row.id = newPools[k].pool
                /\ poolPass.tokenFailures = 0 =>
                     \A j \in DOMAIN newPools[k].underlyingTokens :
                       LET tokenAddress == newPools[k].underlyingTokens[j]
                       IN ValidEntry(tokenAddress) =>
                            [poolId |-> newPools[k].pool,
                             tokenAddress |-> trim(tokenAddress),
                             chain |-> toLowerCase(newPools[k].chain)]
                              \in db.poolToken

\* C29, witness: a pool pass has created p4, whose token list has an empty, a
\* blank and a numeric entry, without a failure, and p4 has the rows of its
\* two valid tokens.
InvalidTokenSkippedWitness ==
  /\ poolPass.pc = "done"
  /\ poolPass.errorCount = 0
  /\ poolPass.newCount > 0
  /\ \E k \in DOMAIN poolPass.evmPools :
       /\ poolPass.evmPools[k].pool = "p4"
       /\ \E j \in DOMAIN poolPass.evmPools[k].underlyingTokens :
            ~ValidEntry(poolPass.evmPools[k].underlyingTokens[j])
  /\ \E row \in db.pool : row.id = "p4"
  /\ {row.tokenAddress : row \in {r \in db.poolToken : r.poolId = "p4"}}
       = {"0xa", "0xb"}

\* C30: when a protocol pass or a pool pass is over whose payload has a record
\* on which the chain filter throws, and no transaction of the pass failed in
\* the store, every other record of the payload that passes the filters has
\* its row: the pass went on without the malformed record.
MalformedRecordContained ==
  /\ /\ pp.pc \in {"done", "thrown"}
     /\ pp.dbFailures = 0
     /\ EvmProtocolsThrows(ActiveProtocols(pp.protocols))
     => \A k \in DOMAIN pp.protocols :
          /\ pp.protocols[k].deadFrom = 0
          /\ ~isEVMCompatibleThrows(pp.protocols[k])
          /\ isEVMCompatible(pp.protocols[k])
          => \E row \in db.protocol : row.id = pp.protocols[k].id
  /\ /\ poolPass.pc \in {"done", "thrown"}
     /\ poolPass.dbFailures = 0
     /\ poolPass.fkErrors = 0
     /\ EvmPoolsThrows(ValidPools(poolPass.pools, poolPass.validProtocolSlugs))
     => \A k \in DOMAIN poolPass.pools :
          /\ poolPass.pools[k].project \in poolPass.validProtocolSlugs
          /\ toLowerCase(poolPass.pools[k].chain) \in EVM_CHAINS
          => \E row \in db.pool : row.id = poolPass.pools[k].pool

\* C31: a run of syncAll that is over has thrown exactly when syncProtocols,
\* syncPools and syncStablecoins have all thrown, and a run calls
\* syncPoolChart only after a syncPools that returned.
SyncAllThrowsWhenAllThrew ==
  /\ all.pc \in {"done", "thrown"} =>
       /\ Len(all.ended) >= 3
       /\ all.pc = "thrown" <=> \A n \in 1 .. 3 : all.ended[n] = "thrown"
  /\ (\E n \in DOMAIN all.ran : all.ran[n] = "charts") =>
       Len(all.ended) >= 3 /\ all.ended[2] = "done"

\* C31, witness: a run has returned after syncProtocols threw, syncPools
\* returned and a chart was refreshed.
SyncAllThrowsWhenAllThrewWitness ==
  /\ all.pc = "done"
  /\ Len(all.ended) > 3
  /\ all.ended[1] = "thrown"
  /\ all.ended[2] = "done"
  /\ all.ran[4] = "charts"

\* C32: syncPoolChart never throws, and a run of syncAll or of the hourly job
\* that has selected pools calls syncPoolChart for each of them, in the order
\* of the list and each when the one before it has returned, whether the
\* earlier refreshes have failed or not.
ChartFailuresContained ==
  LET charts == Cardinality({n \in DOMAIN all.ran : all.ran[n] = "charts"})
      list == all.topPoolsToSync
  IN /\ chartPass.pc # "thrown"
     /\ all.pc = "charts" =>
          /\ all.k \in DOMAIN list
          /\ charts = IF all.awaiting THEN all.k ELSE all.k - 1
          /\ all.awaiting => chartPass.poolId = list[all.k]
          /\ ~all.awaiting => ~Running(chartPass)
     /\ all.pc \in {"done", "thrown"} => charts = Len(list)

\* C32, witness: the hourly job has returned after two refreshes, the first
\* of which failed.
ChartFailuresContainedWitness ==
  /\ all.job
  /\ all.pc = "done"
  /\ Len(all.topPoolsToSync) = 2
  /\ all.ran = <<"charts", "charts">>
  /\ Len(all.ended) = 2
  /\ all.ended[1] = "failed"

\* the phase of a pass at the position pc: 0 Idle, 1 Fetching, 2 Filtering,
\* 3 Reconciling, 4 CacheRefresh, 5 Done or Failed; the pool pass reads the
\* slugs and the pool ids before it fetches, the protocol pass reads the ids
\* after its filters
Phase(pc) ==
  CASE pc = "idle" -> 0
    [] pc \in {"findSlugs", "findPools", "getProtocols", "getPools"} -> 1
    [] pc = "findMany" -> 2
    [] pc \in {"create", "update", "tokens", "tokenOne"} -> 3
    [] pc = "cache" -> 4
    [] pc \in {"done", "thrown"} -> 5

\* C33: a protocol pass and a pool pass start in Fetching and never go back
\* to an earlier phase;
\* the tables are written in Reconciling only, after the fetch and the
\* filters, and the cache in CacheRefresh only, after the loop over the
\* chunks; and a pass whose awaited calls all return or throw ends in Done or
\* Failed.
PhasesInOrder ==
  /\ [][/\ Running(pp) => Phase(pp'.pc) >= Phase(pp.pc)
        /\ Running(poolPass) => Phase(poolPass'.pc) >= Phase(poolPass.pc)
        /\ ~Running(pp) /\ Running(pp') => Phase(pp'.pc) = 1
        /\ ~Running(poolPass) /\ Running(poolPass') =>
            Phase(poolPass'.pc) = 1
        /\ db' # db =>
            \/ Phase(pp.pc) = 3 /\ pp.loaded /\ pp.protocolsFromApi > 0
            \/ Phase(poolPass.pc) = 3 /\ poolPass.fetched
        /\ pp'.cacheWrites > pp.cacheWrites =>
            pp.pc = "cache" /\ pp.i > Len(pp.protocolChunks)
        /\ poolPass'.cacheWrites > poolPass.cacheWrites =>
            poolPass.pc = "cache" /\ poolPass.i > Len(poolPass.poolChunks)]_vars
  /\ Running(pp) ~> pp.pc \in {"done", "thrown"}
  /\ Running(poolPass) ~> poolPass.pc \in {"done", "thrown"}

\* C33, witness: a protocol pass is over that has written the table and then
\* the cache.
PhasesInOrderWitness ==
  /\ pp.pc = "done"
  /\ pp.newCount > 0
  /\ pp.cacheWrites = 1
\* a row of rows is stamped less than 12 hours before t
StampedWithin12h(rows, t) ==
  \E row \in rows : t - row.dataFetchedAt < 12 * HOUR_MS

CoinCacheAfterCommit ==
  [][/\ cache' # cache => coinPass.pc = "redis"
     /\ coinPass.pc = "transaction" /\ coinPass'.failed > coinPass.failed =>
          cache' = cache]_vars

\* C36: every call the queue of the client has accepted is started and
\* returns to its caller, whatever the order of the calls, the answers and
\* the timers.
AcceptedCallsSettle ==
  \A i \in 1 .. MaxLiveCalls :
    (i \in DOMAIN call /\ call[i].pc \in {"queued", "request", "retryDelay"})
      ~> (i \in DOMAIN call /\ call[i].pc = "settled")

\* a call was accepted while the call before it was retried after a 429, and
\* both have returned
AcceptedCallsSettleWitness ==
  /\ Len(call) = 2
  /\ \A i \in DOMAIN call : call[i].pc = "settled"
  /\ starts["sync"][1] > 0
  /\ client["sync"].backoffTime > 0
  /\ client["sync"].requestQueue = <<>>

\* C37: no step moves the time until which a client backs off to an earlier
\* time.
BackoffNeverShortened ==
  [][\A c \in Clients :
       client'[c].backoffTime >= client[c].backoffTime]_vars

\* C38: when the loop of a pool pass is over and every new pool of the pass
\* is counted as created, every valid entry of the token list of every new
\* pool has its PoolToken row.
CreatedPoolsHaveTokens ==
  LET newPools == NewPools(poolPass.evmPools, poolPass.existingPoolIds)
  IN /\ poolPass.pc \in {"cache", "done", "thrown"}
     /\ poolPass.fetched
     /\ poolPass.newCount = Len(newPools)
     => \A k \in DOMAIN newPools :
          \A j \in DOMAIN newPools[k].underlyingTokens :
            LET tokenAddress == newPools[k].underlyingTokens[j]
            IN ValidEntry(tokenAddress) =>
                 [poolId |-> newPools[k].pool,
                  tokenAddress |-> trim(tokenAddress),
                  chain |-> toLowerCase(newPools[k].chain)] \in db.poolToken

\* C39: the step in which the fetch of syncProtocols, syncPools,
\* syncStablecoins or syncPoolChart returns no record ends the run without
\* an error and leaves the store and the cache as they are; such a run has
\* counted no record and written no cache entry.
ZeroRecordsNoEffect ==
  [][/\ /\ pp.pc = "getProtocols"
        /\ pp'.pc \notin {"getProtocols", "thrown"}
        /\ pp'.protocolsFromApi = 0
        => /\ pp'.pc = "done" /\ db' = db /\ cache' = cache
           /\ pp'.successCount = 0 /\ pp'.errorCount = 0
           /\ pp'.ops = <<>> /\ pp'.cacheWrites = 0
     /\ /\ poolPass.pc = "getPools"
        /\ poolPass'.pc \notin {"getPools", "thrown"}
        /\ poolPass'.poolsFromApi = 0
        => /\ poolPass'.pc = "done" /\ db' = db /\ cache' = cache
           /\ poolPass'.successCount = 0 /\ poolPass'.errorCount = 0
           /\ poolPass'.ops = <<>> /\ poolPass'.cacheWrites = 0
     /\ /\ stablePass.pc = "fetch"
        /\ stablePass'.pc \notin {"fetch", "thrown"}
        /\ stablePass'.stablecoinsFromApi = 0
        => /\ stablePass'.pc = "done" /\ db' = db /\ cache' = cache
           /\ stablePass'.successCount = 0 /\ stablePass'.errorCount = 0
           /\ stablePass'.cacheWrites = 0
     /\ /\ chartPass.pc = "fetch"
        /\ chartPass'.fetched
        /\ chartPass'.chartData = <<>>
        => /\ chartPass'.pc = "done" /\ db' = db /\ cache' = cache
           /\ chartPass'.successCount = 0 /\ chartPass'.errorCount = 0
           /\ chartPass'.cacheWrites = 0]_vars

\* a run of syncAll whose three passes have ended without an error and have
\* written nothing, and in which the fetch of the chart of a selected pool
\* has returned no record: the store has its rows and the cache is empty
ZeroRecordsNoEffectWitness ==
  /\ ~all.job
  /\ all.ended = <<"done", "done", "done">>
  /\ chartPass.pc = "done" /\ chartPass.fetched /\ chartPass.chartData = <<>>
  /\ db = TopStore
  /\ cache = EmptyCache

\* the runs of syncPools under way or over: the one in focus and the one
\* that waits
PoolRuns == <<[poolPass EXCEPT !.other = <<>>]>> \o poolPass.other

\* C40: when runs of syncPools overlap, the store has one Pool row per pool
\* id and at most one PoolToken row per (poolId, tokenAddress), and a run
\* counts records as failed only when one of its own transactions failed in
\* the store or broke the foreign key of Pool.project, never because of the
\* rows the other run inserted
OverlapKeepsRowsUnique ==
  /\ \A a, b \in db.pool : a.id = b.id => a = b
  /\ \A a, b \in db.poolToken :
       a.poolId = b.poolId /\ a.tokenAddress = b.tokenAddress => a = b
  /\ \A k \in DOMAIN PoolRuns :
       PoolRuns[k].errorCount > 0
         => PoolRuns[k].dbFailures + PoolRuns[k].fkErrors > 0

\* two runs are over that both read the ids before either wrote: each found
\* no stored pool and counted p1 as new, from payloads that differ; p1 has
\* one row, its two token addresses one row each, and neither run counted a
\* failure
OverlapKeepsRowsUniqueWitness ==
  /\ Len(PoolRuns) = 2
  /\ \A k \in 1 .. 2 :
       /\ PoolRuns[k].pc = "done"
       /\ PoolRuns[k].existingPoolIds = {}
       /\ PoolRuns[k].newCount = 1
       /\ PoolRuns[k].errorCount = 0
       /\ PoolRuns[k].tokenFailures = 0
  /\ PoolRuns[1].pools # PoolRuns[2].pools
  /\ Cardinality(db.pool) = 1
  /\ Cardinality(db.poolToken) = 2
====
